---- MODULE Spec2Model ----
(***************************************************************************)
(* Model lifecycle and exclusive-access orchestration of the Xilo tutor:   *)
(* the ModelManager registry (models/model_manager.py) and the adapters it *)
(* starts and stops (models/gptoss_model.py, models/llama31_model.py,      *)
(* models/mistral_model.py, models/mistral_7b.py, models/phi_model.py).    *)
(***************************************************************************)
EXTENDS Integers, Sequences, FiniteSets, TLC

(***************************************************************************)
(* Bounds of the exploration.                                              *)
(***************************************************************************)
\* adapter instances constructed by the manager in one run
MaxInstances == 2

(***************************************************************************)
(* Capability descriptor registry: ModelManager.AVAILABLE_MODELS.          *)
(* transformers_version 'X.Y+' is kept as plus = TRUE, min_version = 100X+Y*)
(* (the float the code parses, in hundredths); 'N/A' has plus = FALSE.     *)
(***************************************************************************)
Keys == {"phi-3.5", "mistral-7b-v0.2", "mistral-7b-v0.3", "gpt-j-6b", "gpt-oss-20b"}

AVAILABLE_MODELS ==
  [k \in Keys |->
     CASE k = "phi-3.5" ->
            [class |-> "PhiTutor", use_case |-> "chat", plus |-> TRUE,
             min_version |-> 445, exclusive |-> FALSE, compatible |-> FALSE]
       [] k = "mistral-7b-v0.2" ->
            [class |-> "MistralModel7b", use_case |-> "evaluation", plus |-> TRUE,
             min_version |-> 440, exclusive |-> FALSE, compatible |-> FALSE]
       [] k = "mistral-7b-v0.3" ->
            [class |-> "MistralModel7b", use_case |-> "evaluation", plus |-> TRUE,
             min_version |-> 445, exclusive |-> FALSE, compatible |-> FALSE]
       [] k = "gpt-j-6b" ->
            [class |-> "GPTJModel", use_case |-> "both", plus |-> TRUE,
             min_version |-> 437, exclusive |-> FALSE, compatible |-> TRUE]
       [] k = "gpt-oss-20b" ->
            [class |-> "GPTOSSModel", use_case |-> "both", plus |-> FALSE,
             min_version |-> 0, exclusive |-> TRUE, compatible |-> TRUE]]

\* keys a caller may pass to load_model: the registry's and one it lacks
RequestKeys == Keys \cup {"llama-3.1-8b"}

Roles == {"chat", "evaluation"}

\* what `import transformers` finds: nothing, or a version whose major.minor
\* parses to the float major_minor / 100
TransformersEnvs ==
  {[installed |-> FALSE, major_minor |-> 0]} \cup
  {[installed |-> TRUE, major_minor |-> v] : v \in {437, 440, 445}}

\* ModelManager._detect_compatibility: the flags after __init__.  When the
\* import fails the declared flags stay; otherwise every entry is rewritten:
\* 'X.Y+' compares floats, anything else asks version.startswith(required),
\* which no version satisfies for 'N/A'.
DetectCompatibility(env) ==
  [k \in Keys |->
     IF ~env.installed THEN AVAILABLE_MODELS[k].compatible
     ELSE IF AVAILABLE_MODELS[k].plus
          THEN env.major_minor >= AVAILABLE_MODELS[k].min_version
          ELSE FALSE]

Exclusive(k) == AVAILABLE_MODELS[k].exclusive

(***************************************************************************)
(* Adapter instances.  server_process is the Popen handle of a subprocess  *)
(* adapter ("None", or the state of the process it refers to); model says  *)
(* whether an in-process adapter holds weights.                            *)
(***************************************************************************)
\* range(120) of the health-poll loops
Polls == 120

\* a poll number that never comes
Never == Polls + 2

Classes == {"PhiTutor", "MistralModel7b", "GPTJModel", "GPTOSSModel",
            "Llama31Model", "MistralModel"}

SubprocessClasses == {"GPTOSSModel", "Llama31Model", "MistralModel"}

\* BaseAIModel.__init__ and the adapters' own __init__
NewInstance(cls) ==
  [cls |-> cls, is_loaded |-> FALSE, server_process |-> "None", model |-> FALSE]

\* The environment of one start: files = the binary and weights exist,
\* already = the health endpoint answers 200 before anything is spawned,
\* h = the first poll at which the health endpoint answers 200,
\* e = the first poll at which server_process.poll() reports an exit
\*     (Polls + 1: at the check after the loop), ok = an in-process load works.
PollPoints == {1, Polls}

StartEnvs(cls) ==
  IF cls \in SubprocessClasses
  THEN [files : BOOLEAN, already : IF cls = "Llama31Model" THEN BOOLEAN ELSE {FALSE},
        h : PollPoints \cup {Never},
        e : PollPoints \cup {Polls + 1, Never}, ok : {TRUE}]
  ELSE [files : {TRUE}, already : {FALSE}, h : {Never}, e : {Never}, ok : BOOLEAN]

\* for i in range(120): S holds the turns of the loop at which it would
\* stop; the loop stops at the first of them, 0 when it runs to its end
\* (the for's else branch, the while's exit)
FirstPoll(S) ==
  IF S = {} THEN 0 ELSE CHOOSE i \in S : \A j \in S : i <= j

\* the for/else loop whose else branch always reports a crash
GPTOSSPoll_else_crashed(h, e) ==
  LET i == FirstPoll({n \in 1..Polls : h <= n \/ e <= n}) IN
  IF i = 0 THEN "crashed"
  ELSE IF h <= i THEN "ready"
  ELSE "crashed"

\* GPTOSSModel.load_model, the for/else loop: each turn asks the health
\* endpoint (200: break), then server_process.poll() (exited: raise)
GPTOSSPoll(h, e) ==
  LET i == FirstPoll({n \in 1..Polls : h <= n \/ e <= n}) IN
  IF i = 0 THEN (IF e <= Polls + 1 THEN "crashed" ELSE "timeout")
  ELSE IF h <= i THEN "ready"
  ELSE "crashed"

\* Llama31Model.load_model, the for/else loop: no exit check inside the loop
Llama31Poll(h, e) ==
  LET i == FirstPoll({n \in 1..Polls : h <= n}) IN
  IF i = 0 THEN (IF e <= Polls + 1 THEN "crashed" ELSE "timeout")
  ELSE "ready"

\* MistralModel.load_model (llama-server), the while loop: no exit check at
\* all, the 120 seconds counted as one poll per second
MistralPoll(h, e) ==
  LET i == FirstPoll({n \in 1..Polls : h <= n}) IN
  IF i = 0 THEN "timeout" ELSE "ready"

\* the handle after a successful wait: the Popen object, whose process may
\* have exited unnoticed
HandleAfter(h, e) == IF e < h THEN "exited" ELSE "running"

\* the except branch re-raising without kill() and without dropping the handle
StartFailed_keeps_handle(a, err, spawned, clearFlag) ==
  [a |-> [a EXCEPT !.server_process = IF spawned THEN "running" ELSE "None",
                   !.is_loaded = IF clearFlag THEN FALSE ELSE a.is_loaded],
   err |-> err, spawned |-> spawned]

\* the except branch of the subprocess adapters: kill and drop the handle
StartFailed(a, err, spawned, clearFlag) ==
  [a |-> [a EXCEPT !.server_process = "None",
                   !.is_loaded = IF clearFlag THEN FALSE ELSE a.is_loaded],
   err |-> err, spawned |-> spawned]

StartOk(a, spawned) == [a |-> a, err |-> "none", spawned |-> spawned]

\* GPTOSSModel.load_model
GPTOSSLoad(a, env) ==
  IF a.server_process # "None" /\ a.is_loaded THEN StartOk(a, FALSE)
  ELSE IF ~env.files THEN StartFailed(a, "file_not_found", FALSE, TRUE)
  ELSE LET r == GPTOSSPoll(env.h, env.e) IN
       IF r = "ready"
       THEN StartOk([a EXCEPT !.is_loaded = TRUE,
                              !.server_process = HandleAfter(env.h, env.e)], TRUE)
       ELSE StartFailed(a, r, TRUE, TRUE)

\* Llama31Model.load_model
Llama31Load(a, env) ==
  IF a.is_loaded THEN StartOk(a, FALSE)
  ELSE IF env.already THEN StartOk([a EXCEPT !.is_loaded = TRUE], FALSE)
  ELSE IF ~env.files THEN StartFailed(a, "file_not_found", FALSE, FALSE)
  ELSE LET r == Llama31Poll(env.h, env.e) IN
       IF r = "ready"
       THEN StartOk([a EXCEPT !.is_loaded = TRUE,
                              !.server_process = HandleAfter(env.h, env.e)], TRUE)
       ELSE StartFailed(a, r, TRUE, FALSE)

\* MistralModel.load_model (models/mistral_model.py)
MistralLoad(a, env) ==
  IF a.server_process # "None" THEN StartOk(a, FALSE)
  ELSE IF ~env.files THEN StartFailed(a, "file_not_found", FALSE, FALSE)
  ELSE LET r == MistralPoll(env.h, env.e) IN
       IF r = "ready"
       THEN StartOk([a EXCEPT !.is_loaded = TRUE,
                              !.server_process = HandleAfter(env.h, env.e)], TRUE)
       ELSE StartFailed(a, r, TRUE, FALSE)

\* MistralModel.load_model (models/mistral_7b.py): in-process weights
Mistral7bLoad(a, env) ==
  IF env.ok
  THEN [a |-> [a EXCEPT !.is_loaded = TRUE, !.model = TRUE], err |-> "none",
        spawned |-> FALSE]
  ELSE [a |-> [a EXCEPT !.is_loaded = FALSE], err |-> "load_error",
        spawned |-> FALSE]

\* models.gptj_model.GPTJModel is named by the registry and resolved by
\* __import__ at run time; it is held to BaseAIModel.load_model only
GPTJLoad(a, env) ==
  IF env.ok
  THEN [a |-> [a EXCEPT !.is_loaded = TRUE, !.model = TRUE], err |-> "none",
        spawned |-> FALSE]
  ELSE [a |-> a, err |-> "load_error", spawned |-> FALSE]

\* instance.load_model() by class
AdapterLoad(a, env) ==
  CASE a.cls = "GPTOSSModel" -> GPTOSSLoad(a, env)
    [] a.cls = "Llama31Model" -> Llama31Load(a, env)
    [] a.cls = "MistralModel" -> MistralLoad(a, env)
    [] a.cls = "MistralModel7b" -> Mistral7bLoad(a, env)
    [] OTHER -> GPTJLoad(a, env)

(***************************************************************************)
(* unload().  The outcome o is the environment's: "graceful" (terminate    *)
(* and wait succeed), "killed" (they fail, kill succeeds), "fails" (kill,  *)
(* or the in-process cache release, raises).                               *)
(***************************************************************************)
UnloadOutcomes == {"graceful", "killed", "fails"}

\* GPTOSSModel.unload: no finally, so a failing kill leaves the object as is
GPTOSSUnload(a, o) ==
  IF a.server_process # "None" /\ o = "fails"
  THEN [a |-> a, raised |-> TRUE]
  ELSE [a |-> [a EXCEPT !.server_process = "None", !.is_loaded = FALSE],
        raised |-> FALSE]

\* Llama31Model.unload and MistralModel.unload (llama-server): everything
\* happens under `if self.server_process`, the reset in a finally
ServerUnload(a, o) ==
  IF a.server_process = "None" THEN [a |-> a, raised |-> FALSE]
  ELSE [a |-> [a EXCEPT !.server_process = "None", !.is_loaded = FALSE],
        raised |-> (o = "fails")]

\* MistralModel.unload (models/mistral_7b.py): the references go first,
\* torch.xpu.empty_cache() may raise before is_loaded is cleared
Mistral7bUnload(a, o) ==
  IF o = "fails"
  THEN [a |-> [a EXCEPT !.model = FALSE], raised |-> TRUE]
  ELSE [a |-> [a EXCEPT !.model = FALSE, !.is_loaded = FALSE], raised |-> FALSE]

\* GPTJModel.unload, held to BaseAIModel.unload only
GPTJUnload(a, o) ==
  IF o = "fails"
  THEN [a |-> a, raised |-> TRUE]
  ELSE [a |-> [a EXCEPT !.model = FALSE, !.is_loaded = FALSE], raised |-> FALSE]

\* instance.unload() by class
AdapterUnload(a, o) ==
  CASE a.cls = "GPTOSSModel" -> GPTOSSUnload(a, o)
    [] a.cls \in {"Llama31Model", "MistralModel"} -> ServerUnload(a, o)
    [] a.cls = "MistralModel7b" -> Mistral7bUnload(a, o)
    [] OTHER -> GPTJUnload(a, o)

(***************************************************************************)
(* ModelManager state.  loaded_models keeps the dict's insertion order as  *)
(* a sequence of [key, inst]; an instance is its index in inst; 0 is None. *)
(* pc and call hold the position of the running manager call, last the     *)
(* outcome of the call that returned last (blank while a call runs); pre   *)
(* is the state a call started from, mid the state when it began to build  *)
(* the new adapter.  active_model is app.py's adapter, started without the *)
(* manager, alast the outcome of the last call on it, apc the position of  *)
(* a load_model running on it, gen the generate_response call on it.       *)
(* other holds the position and the call of a second thread of the         *)
(* threaded server while the first one runs; scenario counts the steps of  *)
(* the activate / reject / deactivate / activate sequence made so far.     *)
(* wait is the health-poll loop of a load_model followed turn by turn, fx  *)
(* the last application of one of the pure functions with its arguments.   *)
(***************************************************************************)
VARIABLES compatible, loaded_models, chat_model, evaluation_model, inst,
          pc, call, last, active_model, alast, apc, gen, other, scenario,
          wait, fx, memory, app, progress

vars == <<compatible, loaded_models, chat_model, evaluation_model, inst,
          pc, call, last, active_model, alast, apc, gen, other, scenario,
          wait, fx, memory, app, progress>>

manager_vars == <<compatible, loaded_models, chat_model, evaluation_model,
                  inst, pc, call, last, other, scenario>>

\* the chat memory, the Flask application, the progress files
app_vars == <<memory, app, progress>>

aux_vars == <<wait, fx, app_vars>>

adapter_vars == <<active_model, alast, apc, gen, aux_vars>>

LoadedKeysOf(lm) == {lm[i].key : i \in 1..Len(lm)}

LoadedKeys == LoadedKeysOf(loaded_models)

\* self.loaded_models[key]
LookupIn(lm, key) == (CHOOSE i \in 1..Len(lm) : lm[i].key = key)

Lookup(key) == loaded_models[LookupIn(loaded_models, key)].inst

\* the eviction loop without its `del`
DelKey_forgotten(lm, key) == lm

\* del self.loaded_models[key]
DelKey(lm, key) == SelectSeq(lm, LAMBDA it : it.key # key)

Snapshot ==
  [loaded_models |-> loaded_models, chat_model |-> chat_model,
   evaluation_model |-> evaluation_model, inst |-> inst]

EmptySnapshot ==
  [loaded_models |-> <<>>, chat_model |-> 0, evaluation_model |-> 0, inst |-> <<>>]

\* no start was attempted
NoEnv == [files |-> FALSE, already |-> FALSE, h |-> 0, e |-> 0, ok |-> FALSE]

NoCall ==
  [op |-> "none", key |-> "none", role |-> "none", todo |-> <<>>, new |-> 0,
   unloaded |-> <<>>, pre |-> EmptySnapshot, mid |-> EmptySnapshot,
   retry |-> FALSE, after_unload_all |-> FALSE]

NoLast ==
  [op |-> "none", key |-> "none", role |-> "none", outcome |-> "none",
   result |-> 0, raised |-> FALSE, new |-> 0, err |-> "none",
   spawned |-> FALSE, unloaded |-> <<>>, pre |-> EmptySnapshot,
   mid |-> EmptySnapshot, env |-> NoEnv, retry |-> FALSE,
   after_unload_all |-> FALSE]

NoAdapterLast ==
  [op |-> "none", err |-> "none", raised |-> FALSE, spawned |-> FALSE,
   env |-> NoEnv, before |-> NewInstance("GPTOSSModel")]

\* no generate_response call was made.  ready = is_ready() when the call
\* began, posted = the request was built and sent, released = unload() let
\* go of the process handle while the request was out
NoGen ==
  [pc |-> "idle", outcome |-> "none", raised |-> FALSE, posted |-> FALSE,
   ready |-> FALSE, starting |-> FALSE, released |-> FALSE]

\* no poll loop has run: i polls made, t seconds waited, fast answers that
\* came back at once within the running second
NoWait == [live |-> FALSE, i |-> 0, t |-> 0, fast |-> 0]

\* no function was applied
NoFx == [op |-> "none"]

\* the sessions of the chat memory
Sessions == {"s1", "s2"}

\* ChatMemory.__init__: no session; added is the pairs add_message was
\* given for a session since it was last cleared, context is what the last
\* get_context_messages returned when nothing ran since
NoContext == [session |-> "none", messages |-> <<>>]

NoMemory ==
  [sessions |-> [s \in Sessions |-> [present |-> FALSE, pairs |-> <<>>]],
   added |-> [s \in Sessions |-> <<>>],
   context |-> NoContext]

\* the application before __main__ ran: model_status as the module sets
\* it, no server, no request answered
NoRequest ==
  [route |-> "none", body |-> "none", at |-> "none", code |-> 0,
   invoked |-> FALSE, appended |-> FALSE, before |-> NoMemory]

\* status is model_status['status']; main is where the process is: "start",
\* "initialized" (the model block of __main__ is over), "serving" (app.run),
\* "stopped" (app.run ended); load is how initialize_model's load_model
\* ended ("skipped": initialize_model was not called); ran is whether
\* app.run was called; request is the last request answered
NoApp ==
  [status |-> "initializing", main |-> "start", load |-> "none", ran |-> FALSE,
   request |-> NoRequest]

\* the lessons and the questions of the one user
LessonKeys == {"L1", "L2"}

QuestionIds == {"q1", "q2"}

NoQuestion ==
  [known |-> FALSE, correct |-> FALSE, attempts |-> 0, hints_used |-> 0,
   first_attempt_correct |-> FALSE]

NoLesson ==
  [present |-> FALSE, status |-> "none", current_section |-> "None",
   sections_completed |-> <<>>,
   questions_answered |-> [q \in QuestionIds |-> NoQuestion],
   total_questions |-> 0, total_score |-> 0, time_spent_minutes |-> 0]

\* _load_user_progress when the user has no file (exists: the file is
\* there); credited counts, for a question of a lesson entry, the additions
\* to total_questions_correct it caused since the entry was made; op is the
\* last call ("complete_lesson" or "other"), and for complete_lesson lesson
\* is its lesson, before the status of that lesson and
\* total_lessons_completed when it was made
NoProgress ==
  [exists |-> FALSE,
   lessons |-> [l \in LessonKeys |-> NoLesson],
   stats |-> [total_lessons_started |-> 0, total_lessons_completed |-> 0,
              total_sections_completed |-> 0, total_questions_answered |-> 0,
              total_questions_correct |-> 0, total_time_minutes |-> 0],
   credited |-> [l \in LessonKeys |-> [q \in QuestionIds |-> 0]],
   op |-> "none", lesson |-> "none",
   before |-> [status |-> "none", total_lessons_completed |-> 0]]

\* the second thread is between two calls
NoThread == [pc |-> "idle", call |-> NoCall]

\* The activate / refuse / deactivate / activate sequence, counted as the
\* calls return:
\* 1 an exclusive model was loaded for chat; 2 then a non-exclusive model
\* was refused for evaluation; 3 then unload_all returned; 4 then
\* load_model of a compatible non-exclusive model for evaluation returned.
\* Any other call starts the count again.
ScenarioStep(s, op, key, role, outcome) ==
  IF op = "load_model" /\ outcome = "loaded" /\ Exclusive(key) /\ role = "chat"
  THEN 1
  ELSE IF s = 1 /\ op = "load_model" /\ outcome = "exclusive_loaded"
          /\ role = "evaluation"
  THEN 2
  ELSE IF s = 2 /\ op = "unload_all" /\ outcome = "done"
  THEN 3
  ELSE IF s = 3 /\ op = "load_model" /\ role = "evaluation" /\ key \in Keys
          /\ ~Exclusive(key) /\ compatible[key]
  THEN 4
  ELSE 0

\* ModelManager.__init__
Init ==
  /\ \E env \in TransformersEnvs : compatible = DetectCompatibility(env)
  /\ loaded_models = <<>>
  /\ chat_model = 0
  /\ evaluation_model = 0
  /\ inst = <<>>
  /\ pc = "idle"
  /\ call = NoCall
  /\ last = NoLast
  /\ active_model = NewInstance("GPTOSSModel")
  /\ alast = NoAdapterLast
  /\ apc = "idle"
  /\ gen = NoGen
  /\ other = NoThread
  /\ scenario = 0
  /\ wait = NoWait
  /\ fx = NoFx
  /\ memory = NoMemory
  /\ app = NoApp
  /\ progress = NoProgress

\* the errors of a start: launch errors and the timeout
StartErrors == {"file_not_found", "crashed", "timeout", "load_error"}

\* the call that begins follows a load_model for the same key whose new
\* adapter failed to start
RetryOf(key) ==
  /\ last.op \in {"load_model", "switch_model"}
  /\ last.outcome = "failed"
  /\ last.new # 0
  /\ last.err \in StartErrors
  /\ last.key = key

\* the call that begins is the first one after an unload_all that returned
AfterUnloadAll == last.op = "unload_all" /\ ~last.raised

\* the call returns (result 0 is None) or lets an exception through
Return(outcome, result, raised, err, spawned, env, c) ==
  /\ pc' = "idle"
  /\ call' = NoCall
  /\ scenario' = ScenarioStep(scenario, c.op, c.key, c.role, outcome)
  /\ last' = [op |-> c.op, key |-> c.key, role |-> c.role, outcome |-> outcome,
              result |-> result, raised |-> raised, new |-> c.new, err |-> err,
              spawned |-> spawned, unloaded |-> c.unloaded, pre |-> c.pre,
              mid |-> c.mid, env |-> env, retry |-> c.retry,
              after_unload_all |-> c.after_unload_all]

\* Resolve without the eviction of lines 143-170
Resolve_no_eviction(op, key, role, pre) ==
  LET c == [op |-> op, key |-> key, role |-> role, todo |-> <<>>, new |-> 0,
            unloaded |-> <<>>, pre |-> pre, mid |-> EmptySnapshot,
            retry |-> RetryOf(key), after_unload_all |-> AfterUnloadAll] IN
  IF key \notin Keys
  THEN Return("unknown", 0, FALSE, "none", FALSE, NoEnv, c)
  ELSE IF ~compatible[key]
  THEN Return("incompatible", 0, FALSE, "none", FALSE, NoEnv, c)
  ELSE /\ pc' = "cached"
       /\ call' = c
       /\ last' = NoLast
       /\ UNCHANGED scenario

\* Resolve with the compatibility test of lines 139-141 placed after the
\* exclusive branch
Resolve_compatible_late(op, key, role, pre) ==
  LET c == [op |-> op, key |-> key, role |-> role, todo |-> <<>>, new |-> 0,
            unloaded |-> <<>>, pre |-> pre, mid |-> EmptySnapshot,
            retry |-> RetryOf(key), after_unload_all |-> AfterUnloadAll] IN
  IF key \notin Keys
  THEN Return("unknown", 0, FALSE, "none", FALSE, NoEnv, c)
  ELSE IF AVAILABLE_MODELS[key].exclusive /\ loaded_models # <<>>
  THEN /\ pc' = "evict"
       /\ call' = [c EXCEPT !.todo = loaded_models]
       /\ last' = NoLast
       /\ UNCHANGED scenario
  ELSE IF ~compatible[key]
  THEN Return("incompatible", 0, FALSE, "none", FALSE, NoEnv, c)
  ELSE /\ pc' = "cached"
       /\ call' = c
       /\ last' = NoLast
       /\ UNCHANGED scenario

\* load_model lines 133-149: resolve the descriptor, decide on eviction
Resolve(op, key, role, pre) ==
  LET c == [op |-> op, key |-> key, role |-> role, todo |-> <<>>, new |-> 0,
            unloaded |-> <<>>, pre |-> pre, mid |-> EmptySnapshot,
            retry |-> RetryOf(key), after_unload_all |-> AfterUnloadAll] IN
  IF key \notin Keys
  THEN Return("unknown", 0, FALSE, "none", FALSE, NoEnv, c)
  ELSE IF ~compatible[key]
  THEN Return("incompatible", 0, FALSE, "none", FALSE, NoEnv, c)
  ELSE IF Exclusive(key) /\ loaded_models # <<>>
  THEN /\ pc' = "evict"
       /\ call' = [c EXCEPT !.todo = loaded_models]
       /\ last' = NoLast
       /\ UNCHANGED scenario
  ELSE /\ pc' = "cached"
       /\ call' = c
       /\ last' = NoLast
       /\ UNCHANGED scenario

\* ModelManager.load_model(model_key, role), entry
load_model(key, role) ==
  /\ pc = "idle"
  /\ Resolve("load_model", key, role, Snapshot)
  /\ UNCHANGED <<compatible, loaded_models, chat_model, evaluation_model, inst,
                 adapter_vars, other>>

\* load_model lines 151-155: one turn of the eviction loop over the items
\* listed when it began; `del` of a key that is gone by then is a KeyError
load_model_evict ==
  /\ pc = "evict"
  /\ call.todo # <<>>
  /\ LET it == Head(call.todo) IN
     IF it.key = call.key
     THEN /\ call' = [call EXCEPT !.todo = Tail(call.todo)]
          /\ UNCHANGED <<pc, last, inst, loaded_models, scenario>>
     ELSE \E o \in UnloadOutcomes :
            LET r == AdapterUnload(inst[it.inst], o)
                c == [call EXCEPT !.todo = Tail(call.todo),
                                  !.unloaded = Append(call.unloaded, it.inst)]
            IN /\ inst' = [inst EXCEPT ![it.inst] = r.a]
               /\ IF r.raised
                  THEN /\ Return("raised", 0, TRUE, "unload_error", FALSE, NoEnv, c)
                       /\ UNCHANGED loaded_models
                  ELSE IF it.key \notin LoadedKeys
                  THEN /\ Return("raised", 0, TRUE, "key_error", FALSE, NoEnv, c)
                       /\ UNCHANGED loaded_models
                  ELSE /\ loaded_models' = DelKey(loaded_models, it.key)
                       /\ call' = c
                       /\ UNCHANGED <<pc, last, scenario>>
  /\ UNCHANGED <<compatible, chat_model, evaluation_model, adapter_vars, other>>

\* the eviction clearing chat_model only
load_model_evicted_chat_only ==
  /\ pc = "evict"
  /\ call.todo = <<>>
  /\ chat_model' = 0
  /\ pc' = "cached"
  /\ UNCHANGED <<compatible, loaded_models, evaluation_model, inst, call, last,
                 adapter_vars, other, scenario>>

\* load_model lines 157-170: after the loop both role pointers are cleared
load_model_evicted ==
  /\ pc = "evict"
  /\ call.todo = <<>>
  /\ chat_model' = 0
  /\ evaluation_model' = 0
  /\ pc' = "cached"
  /\ UNCHANGED <<compatible, loaded_models, inst, call, last, adapter_vars, other,
                 scenario>>

\* the reverse check asking the requested model's flag, not the resident ones'
exclusive_loaded_requested == AVAILABLE_MODELS[call.key].exclusive

\* load_model lines 178-181
exclusive_loaded == \E k \in LoadedKeys : Exclusive(k)

\* load_model without the cache lookup of lines 172-175
load_model_cached_no_lookup ==
  /\ pc = "cached"
  /\ IF (\E k \in LoadedKeys : AVAILABLE_MODELS[k].exclusive)
        /\ ~AVAILABLE_MODELS[call.key].exclusive
     THEN Return("exclusive_loaded", 0, FALSE, "none", FALSE, NoEnv, call)
     ELSE /\ pc' = "construct"
          /\ call' = [call EXCEPT !.mid = Snapshot]
          /\ last' = last
          /\ UNCHANGED scenario
  /\ UNCHANGED <<compatible, loaded_models, chat_model, evaluation_model, inst,
                 adapter_vars, other>>

\* load_model lines 172-185: reuse a cached instance, or refuse a
\* non-exclusive model beside an exclusive one
load_model_cached ==
  /\ pc = "cached"
  /\ IF call.key \in LoadedKeys
     THEN Return("cached", Lookup(call.key), FALSE, "none", FALSE, NoEnv, call)
     ELSE IF exclusive_loaded /\ ~Exclusive(call.key)
     THEN Return("exclusive_loaded", 0, FALSE, "none", FALSE, NoEnv, call)
     ELSE /\ pc' = "construct"
          /\ call' = [call EXCEPT !.mid = Snapshot]
          /\ last' = last
          /\ UNCHANGED scenario
  /\ UNCHANGED <<compatible, loaded_models, chat_model, evaluation_model, inst,
                 adapter_vars, other>>

\* what __import__ and ModelClass(self.config) can do.  PhiTutor.__init__
\* takes no config, so the call raises; mistral_7b's __init__ loads at once
\* when the XPU is there; the others only build the object.
ConstructOutcomes(cls) ==
  CASE cls = "PhiTutor" -> {"raise"}
    [] cls = "MistralModel7b" -> {"raise", "unloaded", "loaded"}
    [] OTHER -> {"raise", "unloaded"}

\* load_model lines 201-211: cache the instance (a dict assignment: a key
\* that is there keeps its place and gets the new value) and bind the role
Register(c, id, I, spawned, env) ==
  /\ inst' = I
  /\ loaded_models' =
       IF c.key \in LoadedKeys
       THEN [loaded_models EXCEPT ![LookupIn(loaded_models, c.key)].inst = id]
       ELSE Append(loaded_models, [key |-> c.key, inst |-> id])
  /\ chat_model' = IF c.role = "chat" THEN id ELSE chat_model
  /\ evaluation_model' = IF c.role = "evaluation" THEN id ELSE evaluation_model
  /\ Return("loaded", id, FALSE, "none", spawned, env, c)

\* load_model lines 187-195 (and 213-215 when the constructor raises)
load_model_construct ==
  /\ pc = "construct"
  /\ Len(inst) < MaxInstances
  /\ LET cls == AVAILABLE_MODELS[call.key].class
         id == Len(inst) + 1
     IN \E o \in ConstructOutcomes(cls) :
          CASE o = "raise" ->
                 /\ Return("failed", 0, FALSE, "construct_error", FALSE, NoEnv, call)
                 /\ UNCHANGED <<loaded_models, chat_model, evaluation_model, inst>>
            [] o = "unloaded" ->
                 /\ inst' = Append(inst, NewInstance(cls))
                 /\ pc' = "start"
                 /\ call' = [call EXCEPT !.new = id]
                 /\ UNCHANGED <<loaded_models, chat_model, evaluation_model, last,
                                scenario>>
            [] o = "loaded" ->
                 Register([call EXCEPT !.new = id], id,
                          Append(inst, [NewInstance(cls) EXCEPT !.is_loaded = TRUE,
                                                                !.model = TRUE]),
                          FALSE, NoEnv)
  /\ UNCHANGED <<compatible, adapter_vars, other>>

\* load_model caching the instance before it is started
load_model_start_cached_first ==
  /\ pc = "start"
  /\ \E env \in StartEnvs(inst[call.new].cls) :
       LET r == AdapterLoad(inst[call.new], env)
           I == [inst EXCEPT ![call.new] = r.a]
       IN IF r.err = "none"
          THEN Register(call, call.new, I, r.spawned, env)
          ELSE /\ inst' = I
               /\ loaded_models' =
                    Append(loaded_models, [key |-> call.key, inst |-> call.new])
               /\ Return("failed", 0, FALSE, r.err, r.spawned, env, call)
               /\ UNCHANGED <<chat_model, evaluation_model>>
  /\ UNCHANGED <<compatible, adapter_vars, other>>

\* load_model putting the evicted entries and the pointers back when the
\* start fails
load_model_start_rollback ==
  /\ pc = "start"
  /\ \E env \in StartEnvs(inst[call.new].cls) :
       LET r == AdapterLoad(inst[call.new], env)
           I == [inst EXCEPT ![call.new] = r.a]
       IN IF r.err = "none"
          THEN Register(call, call.new, I, r.spawned, env)
          ELSE /\ inst' = I
               /\ loaded_models' = call.pre.loaded_models
               /\ chat_model' = call.pre.chat_model
               /\ evaluation_model' = call.pre.evaluation_model
               /\ Return("failed", 0, FALSE, r.err, r.spawned, env, call)
  /\ UNCHANGED <<compatible, adapter_vars, other>>

\* load_model lines 198-215: start the new adapter, register it or give up
load_model_start ==
  /\ pc = "start"
  /\ \E env \in StartEnvs(inst[call.new].cls) :
       LET r == AdapterLoad(inst[call.new], env)
           I == [inst EXCEPT ![call.new] = r.a]
       IN IF r.err = "none"
          THEN Register(call, call.new, I, r.spawned, env)
          ELSE /\ inst' = I
               /\ Return("failed", 0, FALSE, r.err, r.spawned, env, call)
               /\ UNCHANGED <<loaded_models, chat_model, evaluation_model>>
  /\ UNCHANGED <<compatible, adapter_vars, other>>

\* the classes whose instances have the model_name that switch_model logs:
\* BaseAIModel.__init__ sets it, mistral_7b's MistralModel and PhiTutor are
\* no BaseAIModel and never set it
HasModelName(cls) == cls \notin {"MistralModel7b", "PhiTutor"}

\* ModelManager.switch_model: log and unload the role's current model (it
\* stays in loaded_models), then load_model
switch_model(key, role) ==
  /\ pc = "idle"
  /\ LET current == IF role = "chat" THEN chat_model ELSE evaluation_model
         c == [NoCall EXCEPT !.op = "switch_model", !.key = key, !.role = role,
                             !.pre = Snapshot]
     IN
     IF current = 0
     THEN /\ Resolve("switch_model", key, role, Snapshot)
          /\ UNCHANGED inst
     ELSE IF ~HasModelName(inst[current].cls)
     THEN /\ Return("raised", 0, TRUE, "attribute_error", FALSE, NoEnv, c)
          /\ UNCHANGED inst
     ELSE \E o \in UnloadOutcomes :
            LET r == AdapterUnload(inst[current], o) IN
            /\ inst' = [inst EXCEPT ![current] = r.a]
            /\ IF r.raised
               THEN Return("raised", 0, TRUE, "unload_error", FALSE, NoEnv,
                           [c EXCEPT !.unloaded = <<current>>])
               ELSE Resolve("switch_model", key, role, Snapshot)
  /\ UNCHANGED <<compatible, loaded_models, chat_model, evaluation_model,
                 adapter_vars, other>>

\* the loop of unload_all: unload() in dict order; the j-th unload meets
\* a failing teardown (j = 0: none does); an exception ends the loop
RECURSIVE UnloadItems(_, _, _)
UnloadItems(items, I, j) ==
  IF items = <<>> THEN [inst |-> I, raised |-> FALSE, unloaded |-> <<>>]
  ELSE LET id == Head(items).inst
           r == AdapterUnload(I[id], IF j = 1 THEN "fails" ELSE "graceful")
           I2 == [I EXCEPT ![id] = r.a]
       IN IF r.raised
          THEN [inst |-> I2, raised |-> TRUE, unloaded |-> <<id>>]
          ELSE LET rest == UnloadItems(Tail(items), I2, j - 1) IN
               [rest EXCEPT !.unloaded = <<id>> \o rest.unloaded]

\* unload_all without self.loaded_models.clear()
unload_all_keeps_entries ==
  /\ pc = "idle"
  /\ \E j \in 0..Len(loaded_models) :
       LET r == UnloadItems(loaded_models, inst, j)
           c == [NoCall EXCEPT !.op = "unload_all", !.pre = Snapshot,
                               !.unloaded = r.unloaded]
       IN /\ inst' = r.inst
          /\ IF r.raised
             THEN /\ Return("raised", 0, TRUE, "unload_error", FALSE, NoEnv, c)
                  /\ UNCHANGED <<loaded_models, chat_model, evaluation_model>>
             ELSE /\ chat_model' = 0
                  /\ evaluation_model' = 0
                  /\ UNCHANGED loaded_models
                  /\ Return("done", 0, FALSE, "none", FALSE, NoEnv, c)
  /\ UNCHANGED <<compatible, adapter_vars, other>>

\* unload_all whose loop ends after the first item
unload_all_first_only ==
  /\ pc = "idle"
  /\ \E j \in 0..Len(loaded_models) :
       LET r == UnloadItems(IF loaded_models = <<>> THEN <<>>
                            ELSE <<Head(loaded_models)>>, inst, j)
           c == [NoCall EXCEPT !.op = "unload_all", !.pre = Snapshot,
                               !.unloaded = r.unloaded]
       IN /\ inst' = r.inst
          /\ IF r.raised
             THEN /\ Return("raised", 0, TRUE, "unload_error", FALSE, NoEnv, c)
                  /\ UNCHANGED <<loaded_models, chat_model, evaluation_model>>
             ELSE /\ loaded_models' = <<>>
                  /\ chat_model' = 0
                  /\ evaluation_model' = 0
                  /\ Return("done", 0, FALSE, "none", FALSE, NoEnv, c)
  /\ UNCHANGED <<compatible, adapter_vars, other>>

\* unload_all without the two assignments of None
unload_all_keeps_pointers ==
  /\ pc = "idle"
  /\ \E j \in 0..Len(loaded_models) :
       LET r == UnloadItems(loaded_models, inst, j)
           c == [NoCall EXCEPT !.op = "unload_all", !.pre = Snapshot,
                               !.unloaded = r.unloaded]
       IN /\ inst' = r.inst
          /\ IF r.raised
             THEN /\ Return("raised", 0, TRUE, "unload_error", FALSE, NoEnv, c)
                  /\ UNCHANGED <<loaded_models, chat_model, evaluation_model>>
             ELSE /\ loaded_models' = <<>>
                  /\ UNCHANGED <<chat_model, evaluation_model>>
                  /\ Return("done", 0, FALSE, "none", FALSE, NoEnv, c)
  /\ UNCHANGED <<compatible, adapter_vars, other>>

\* ModelManager.unload_all
unload_all ==
  /\ pc = "idle"
  /\ \E j \in 0..Len(loaded_models) :
       LET r == UnloadItems(loaded_models, inst, j)
           c == [NoCall EXCEPT !.op = "unload_all", !.pre = Snapshot,
                               !.unloaded = r.unloaded]
       IN /\ inst' = r.inst
          /\ IF r.raised
             THEN /\ Return("raised", 0, TRUE, "unload_error", FALSE, NoEnv, c)
                  /\ UNCHANGED <<loaded_models, chat_model, evaluation_model>>
             ELSE /\ loaded_models' = <<>>
                  /\ chat_model' = 0
                  /\ evaluation_model' = 0
                  /\ Return("done", 0, FALSE, "none", FALSE, NoEnv, c)
  /\ UNCHANGED <<compatible, adapter_vars, other>>

\* get_chat_model() / get_evaluation_model() (lines 239-245), and the
\* caller starting the adapter it was handed: instance.load_model()
adapter_load_model(role) ==
  /\ pc = "idle"
  /\ LET p == IF role = "chat" THEN chat_model ELSE evaluation_model IN
     /\ p # 0
     /\ \E env \in StartEnvs(inst[p].cls) :
          LET r == AdapterLoad(inst[p], env)
              c == [NoCall EXCEPT !.op = "adapter_load_model", !.role = role,
                                  !.pre = Snapshot,
                                  !.retry = (last.op = "adapter_load_model"
                                             /\ last.raised /\ last.result = p
                                             /\ last.err \in StartErrors)]
          IN /\ inst' = [inst EXCEPT ![p] = r.a]
             /\ IF r.err = "none"
                THEN Return("started", p, FALSE, "none", r.spawned, env, c)
                ELSE Return("raised", p, TRUE, r.err, r.spawned, env, c)
  /\ UNCHANGED <<compatible, loaded_models, chat_model, evaluation_model,
                 adapter_vars, other>>

Next ==
  \/ \E key \in RequestKeys, role \in Roles : load_model(key, role)
  \/ load_model_evict
  \/ load_model_evicted
  \/ load_model_cached
  \/ load_model_construct
  \/ load_model_start
  \/ \E key \in RequestKeys, role \in Roles : switch_model(key, role)
  \/ unload_all
  \/ \E role \in Roles : adapter_load_model(role)

Spec == Init /\ [][Next]_vars

(***************************************************************************)
(* The threaded server (app.run(threaded=True)): two request threads call  *)
(* the manager.  ModelManager holds no lock, so a thread may be suspended  *)
(* between any two steps of load_model while the other one runs.           *)
(***************************************************************************)
\* the interpreter switches threads: the running call is set aside, the
\* other thread goes on from where it was
switch_thread ==
  /\ (pc # other.pc \/ call # other.call)
  /\ pc' = other.pc
  /\ call' = other.call
  /\ other' = [pc |-> pc, call |-> call]
  /\ UNCHANGED <<compatible, loaded_models, chat_model, evaluation_model, inst,
                 last, scenario, adapter_vars>>

\* the keys the two threads ask for: the models the registry declares
\* compatible, one of them exclusive
ThreadKeys == {k \in Keys : AVAILABLE_MODELS[k].compatible}

NextThreads ==
  \/ \E key \in ThreadKeys, role \in Roles : load_model(key, role)
  \/ load_model_evict
  \/ load_model_evicted
  \/ load_model_cached
  \/ load_model_construct
  \/ load_model_start
  \/ unload_all
  \/ switch_thread

SpecThreads == Init /\ [][NextThreads]_vars

(***************************************************************************)
(* app.py: initialize_model builds one subprocess adapter and calls        *)
(* load_model on it; atexit (and callers) call unload.  The manager is not *)
(* involved.                                                               *)
(***************************************************************************)
InitAdapter ==
  /\ \E env \in TransformersEnvs : compatible = DetectCompatibility(env)
  /\ loaded_models = <<>>
  /\ chat_model = 0
  /\ evaluation_model = 0
  /\ inst = <<>>
  /\ pc = "idle"
  /\ call = NoCall
  /\ last = NoLast
  /\ \E cls \in SubprocessClasses : active_model = NewInstance(cls)
  /\ alast = NoAdapterLast
  /\ apc = "idle"
  /\ gen = NoGen
  /\ other = NoThread
  /\ scenario = 0
  /\ wait = NoWait
  /\ fx = NoFx
  /\ memory = NoMemory
  /\ app = NoApp
  /\ progress = NoProgress

\* active_model.load_model(), from its first line to its return
active_load_model ==
  /\ apc = "idle"
  /\ \E env \in StartEnvs(active_model.cls) :
       LET r == AdapterLoad(active_model, env) IN
       /\ active_model' = r.a
       /\ alast' = [op |-> "load_model", err |-> r.err, raised |-> r.err # "none",
                    spawned |-> r.spawned, env |-> env, before |-> active_model]
  /\ UNCHANGED <<manager_vars, aux_vars, apc, gen>>

\* load_model as the other threads see it, first half: subprocess.Popen has
\* returned and the handle is stored, the health polls have not ended
active_load_model_spawn ==
  /\ apc = "idle"
  /\ \E env \in StartEnvs(active_model.cls) : AdapterLoad(active_model, env).spawned
  /\ active_model' = [active_model EXCEPT !.server_process = "running"]
  /\ apc' = "starting"
  /\ UNCHANGED <<manager_vars, aux_vars, alast, gen>>

\* second half: the polls end, load_model returns or raises
active_load_model_wait ==
  /\ apc = "starting"
  /\ \E env \in StartEnvs(active_model.cls) :
       LET before == [active_model EXCEPT !.server_process = "None"]
           r == AdapterLoad(before, env)
       IN /\ r.spawned
          /\ active_model' = r.a
          /\ alast' = [op |-> "load_model", err |-> r.err, raised |-> r.err # "none",
                       spawned |-> TRUE, env |-> env, before |-> before]
  /\ apc' = "idle"
  /\ UNCHANGED <<manager_vars, aux_vars, gen>>

\* active_model.unload(); it asks nobody whether a request is under way
active_unload ==
  /\ apc = "idle"
  /\ \E o \in UnloadOutcomes :
       LET r == AdapterUnload(active_model, o) IN
       /\ active_model' = r.a
       /\ alast' = [op |-> "unload", err |-> IF r.raised THEN "unload_error" ELSE "none",
                    raised |-> r.raised, spawned |-> FALSE, env |-> NoEnv,
                    before |-> active_model]
       /\ gen' = IF gen.pc = "inflight" /\ active_model.server_process # "None"
                    /\ r.a.server_process = "None"
                 THEN [gen EXCEPT !.released = TRUE]
                 ELSE gen
  /\ UNCHANGED <<manager_vars, aux_vars, apc>>

\* the first statement of generate_response: GPTOSSModel and Llama31Model
\* return an error string unless is_loaded and the handle is there,
\* MistralModel raises RuntimeError unless the handle is there
GenerateCheck(a) ==
  IF a.cls = "MistralModel"
  THEN (IF a.server_process = "None" THEN "raise" ELSE "go")
  ELSE (IF ~a.is_loaded \/ a.server_process = "None" THEN "not_running" ELSE "go")

\* what requests.post and the decoding of its answer can meet
BackendOutcomes == {"ok", "http_error", "timeout", "refused", "not_json", "no_content"}

\* the value generate_response returns for a backend outcome: the except
\* branches return an error text; a JSON object without the awaited field is
\* "" for result.get("content", "") and a KeyError for result["choices"]
GenerateResult(cls, b) ==
  IF b = "ok" THEN "text"
  ELSE IF b = "no_content" /\ cls \in {"GPTOSSModel", "Llama31Model"} THEN "empty_text"
  ELSE "error_text"

\* active_model.generate_response(...), up to the request being sent
active_generate_response ==
  /\ gen.pc = "idle"
  /\ LET chk == GenerateCheck(active_model) IN
     gen' = [pc |-> IF chk = "go" THEN "inflight" ELSE "idle",
             outcome |-> IF chk = "go" THEN "none" ELSE "not_ready",
             raised |-> (chk = "raise"), posted |-> (chk = "go"),
             ready |-> active_model.is_loaded,
             starting |-> (apc = "starting"), released |-> FALSE]
  /\ UNCHANGED <<manager_vars, aux_vars, active_model, alast, apc>>

\* the request comes back (or fails) and generate_response returns
active_generate_return ==
  /\ gen.pc = "inflight"
  /\ \E b \in BackendOutcomes :
       gen' = [gen EXCEPT !.pc = "idle",
                          !.outcome = GenerateResult(active_model.cls, b)]
  /\ UNCHANGED <<manager_vars, aux_vars, active_model, alast, apc>>

NextAdapter ==
  \/ active_load_model
  \/ active_load_model_spawn
  \/ active_load_model_wait
  \/ active_unload
  \/ active_generate_response
  \/ active_generate_return

SpecAdapter == InitAdapter /\ [][NextAdapter]_vars

(***************************************************************************)
(* The wait of load_model turn by turn: after Popen (apc = "starting")     *)
(* each turn asks the health endpoint once.  The answer is the             *)
(* environment's: "200", another status ("503", what llama-server answers  *)
(* while it loads the weights), or none (the request raises).              *)
(***************************************************************************)
\* answers that come back at once, within one second of the wait
MaxFastPolls == 2

\* max_wait = 120 of MistralModel.load_model
MaxWait == 120

HealthAnswers == {"200", "503", "none"}

\* the loop conditions: for i in range(120) in GPTOSSModel and Llama31Model,
\* while time.time() - start_time < max_wait in MistralModel
LoopGoesOn(cls, w) ==
  IF cls = "MistralModel" THEN w.t < MaxWait ELSE w.i < Polls

\* the end of a turn that goes on: GPTOSSModel and Llama31Model sleep one
\* second whatever the answer; MistralModel sleeps only in its except
\* branch, so after a status other than 200 it asks again at once
NextTurn(cls, w, r) ==
  IF cls # "MistralModel" \/ r = "none" THEN [w EXCEPT !.t = w.t + 1, !.fast = 0]
  ELSE IF w.fast < MaxFastPolls THEN [w EXCEPT !.fast = w.fast + 1]
  ELSE [w EXCEPT !.t = w.t + 1, !.fast = 0]

\* load_model returns (err = "none") or raises after its except branch;
\* of the wait, the number of polls it made is kept
Finish(err, w) ==
  LET before == [active_model EXCEPT !.server_process = "None"] IN
  /\ wait' = [NoWait EXCEPT !.i = w.i]
  /\ apc' = "idle"
  /\ active_model' =
       IF err = "none" THEN [active_model EXCEPT !.is_loaded = TRUE]
       ELSE StartFailed(active_model, err, TRUE, active_model.cls = "GPTOSSModel").a
  /\ alast' = [op |-> "load_model", err |-> err, raised |-> err # "none",
               spawned |-> TRUE, env |-> NoEnv, before |-> before]

\* one turn of the loop; the count of polls is kept up to Polls + 1
poll_turn ==
  /\ apc = "starting"
  /\ LET w == IF wait.live THEN wait ELSE [NoWait EXCEPT !.live = TRUE]
         cls == active_model.cls
     IN /\ LoopGoesOn(cls, w)
        /\ \E r \in HealthAnswers, exited \in BOOLEAN :
             LET n == [w EXCEPT !.i = IF w.i <= Polls THEN w.i + 1 ELSE w.i] IN
             IF r = "200" THEN Finish("none", n)
             ELSE IF cls = "GPTOSSModel" /\ exited THEN Finish("crashed", n)
             ELSE /\ wait' = NextTurn(cls, n, r)
                  /\ UNCHANGED <<active_model, alast, apc>>
  /\ UNCHANGED <<manager_vars, gen, fx, app_vars>>

\* the loop ran out: the else branch of the for loops (exit check, then
\* TimeoutError), the RuntimeError after MistralModel's while loop
poll_exhausted ==
  /\ apc = "starting"
  /\ wait.live
  /\ ~LoopGoesOn(active_model.cls, wait)
  /\ \E exited \in BOOLEAN :
       Finish(IF active_model.cls # "MistralModel" /\ exited THEN "crashed"
              ELSE "timeout", wait)
  /\ UNCHANGED <<manager_vars, gen, fx, app_vars>>

NextStart ==
  \/ active_load_model_spawn
  \/ poll_turn
  \/ poll_exhausted
  \/ active_unload

SpecStart == InitAdapter /\ [][NextStart]_vars

\* the thread that waits is scheduled and every request has a timeout
FairStart == SpecStart /\ WF_vars(poll_turn) /\ WF_vars(poll_exhausted)

(***************************************************************************)
(* The pure functions of the adapters: the prompt that generate_response   *)
(* builds from a history, GPTOSSModel._extract_final_answer, and the       *)
(* parameters and the history PhiTutor.generate_response decides on.  fx   *)
(* holds an input, then the application of the function to it.             *)
(***************************************************************************)
\* the longest history given to generate_response
MaxHistory == 7

\* the most lines of a raw text
MaxLines == 3

Min(a, b) == IF a <= b THEN a ELSE b

Max(a, b) == IF a >= b THEN a ELSE b

\* the roles a message of a history can carry
HistoryRoles == {"user", "assistant", "system"}

\* the histories: message i carries the content i
Histories ==
  UNION {{[i \in 1..n |-> [role |-> r[i], content |-> i]] : r \in [1..n -> HistoryRoles]}
         : n \in 0..MaxHistory}

\* the histories ChatMemory.get_context_messages returns: user and assistant
\* in turn
TurnHistories ==
  {[i \in 1..n |-> [role |-> IF i % 2 = 1 THEN "user" ELSE "assistant",
                    content |-> i]] : n \in 0..MaxHistory}

\* conversation_history[-6:]
Last6(h) == SubSeq(h, IF Len(h) > 6 THEN Len(h) - 6 + 1 ELSE 1, Len(h))

SystemMessage == [role |-> "system", content |-> 0 - 1]

\* the current user message carries the content 0
UserMessage == [role |-> "user", content |-> 0]

IsTurn(m) == m.role \in {"user", "assistant"}

\* GPTOSSModel: the last 6, of which only user and assistant messages are
\* written to the prompt
GPTOSSPrompt(h) ==
  <<SystemMessage>> \o SelectSeq(Last6(h), IsTurn) \o <<UserMessage>>

\* Llama31Model: the last 6, every role other than user written as assistant
Llama31Prompt(h) ==
  LET l == Last6(h) IN
  <<SystemMessage>>
    \o [i \in 1..Len(l) |->
          [l[i] EXCEPT !.role = IF l[i].role = "user" THEN "user" ELSE "assistant"]]
    \o <<UserMessage>>

\* MistralModel: messages.extend(conversation_history[-6:])
MistralPrompt(h) == <<SystemMessage>> \o Last6(h) \o <<UserMessage>>

\* PhiTutor.format_prompt: messages.extend(conversation_history); final is
\* the history generate_response passes, "None" or a list
format_prompt(final) ==
  <<SystemMessage>> \o (IF final.none THEN <<>> ELSE final.h) \o <<UserMessage>>

BuildPrompt(cls, h) ==
  CASE cls = "GPTOSSModel" -> GPTOSSPrompt(h)
    [] cls = "Llama31Model" -> Llama31Prompt(h)
    [] OTHER -> MistralPrompt(h)

\* a user message as PhiTutor.generate_response reads it: its number of
\* words and whether it contains a greeting, an arithmetic marker, an
\* explanation marker; a message of no word contains none
WordCounts == {0, 1, 5, 6, 10, 11, 15, 16, 25, 26, 30}

PromptWordCounts == {0, 5, 6}

MessagesOf(W) ==
  {m \in [words : W, greeting : BOOLEAN, simple_math : BOOLEAN,
          asks_explanation : BOOLEAN] :
     m.words = 0 => ~(m.greeting \/ m.simple_math \/ m.asks_explanation)}

\* temperatures in tenths
Temperatures == {0, 1, 2, 3, 5, 7, 9, 10, 15}

TokenBudgets == {1, 50, 128, 200, 300, 400, 768, 1024, 1500, 2048, 4096}

\* the chat route validates the caller's parameters
ChatValidate(max_new_tokens, temperature) ==
  [max_new_tokens |-> Max(128, Min(2048, max_new_tokens)),
   temperature |-> Max(1, Min(10, temperature))]

\* short questions keep the caller's budget
PhiParameters_short_uncapped(m, max_new_tokens, temperature) ==
  IF m.greeting /\ m.words <= 5
    THEN [max_new_tokens |-> 50, temperature |-> 1]
  ELSE IF m.simple_math /\ m.words <= 15
    THEN [max_new_tokens |-> 50, temperature |-> 1]
  ELSE IF m.words <= 10
    THEN [max_new_tokens |-> max_new_tokens, temperature |-> 3]
  ELSE IF m.words <= 25
    THEN [max_new_tokens |-> Min(max_new_tokens, 400), temperature |-> 5]
  ELSE [max_new_tokens |-> Min(max_new_tokens, 1024),
        temperature |-> Min(temperature, 7)]

\* the smart token limiting of PhiTutor.generate_response
PhiParameters(m, max_new_tokens, temperature) ==
  IF m.greeting /\ m.words <= 5
    THEN [max_new_tokens |-> 50, temperature |-> 1]
  ELSE IF m.simple_math /\ m.words <= 15
    THEN [max_new_tokens |-> 50, temperature |-> 1]
  ELSE IF m.words <= 10
    THEN [max_new_tokens |-> Min(max_new_tokens, 200), temperature |-> 3]
  ELSE IF m.words <= 25
    THEN [max_new_tokens |-> Min(max_new_tokens, 400), temperature |-> 5]
  ELSE [max_new_tokens |-> Min(max_new_tokens, 1024),
        temperature |-> Min(temperature, 7)]

\* a standalone question drops the history whatever it holds
PhiHistory_always_dropped(m, h) ==
  IF (m.simple_math /\ ~m.asks_explanation) \/ (m.greeting /\ m.words <= 5)
    THEN [none |-> TRUE, h |-> <<>>]
    ELSE [none |-> FALSE, h |-> h]

\* final_conversation_history of PhiTutor.generate_response
PhiHistory(m, h) ==
  IF (m.simple_math /\ ~m.asks_explanation) \/ (m.greeting /\ m.words <= 5)
    THEN IF Len(h) > 0 THEN [none |-> FALSE, h |-> h]
         ELSE [none |-> TRUE, h |-> <<>>]
    ELSE [none |-> FALSE, h |-> h]

\* a raw text is its lines; a line is a template tag or not, around a body
\* that is empty, whitespace, a sentence with a meta phrase, or another
LineBodies == {"", "ws", "meta", "plain"}

Lines == [tag : BOOLEAN, body : LineBodies]

RawTexts == UNION {[1..n -> Lines] : n \in 1..MaxLines}

\* the three replace calls
RemoveTags(t) == [i \in 1..Len(t) |-> [t[i] EXCEPT !.tag = FALSE]]

\* line.strip()
StripLine(l) == IF l.body = "ws" THEN [l EXCEPT !.body = ""] ELSE l

\* not line.strip()
IsBlank(l) == ~l.tag /\ StripLine(l).body = ""

\* response_text.strip(): the blank lines at both ends go, the empty text is
\* the empty sequence
StripText(t) ==
  LET full == {i \in 1..Len(t) : ~IsBlank(t[i])} IN
  IF full = {} THEN <<>>
  ELSE SubSeq(t, CHOOSE a \in full : \A i \in full : a <= i,
                 CHOOSE b \in full : \A i \in full : i <= b)

\* split('\n'): the empty text has one empty line
SplitLines(t) == IF t = <<>> THEN <<[tag |-> FALSE, body |-> ""]>> ELSE t

RECURSIVE AnswerStart_no_break(_, _, _)
\* the scan goes on after the first line that is not reasoning
AnswerStart_no_break(lines, i, start) ==
  IF i > Len(lines) THEN start
  ELSE IF IsBlank(lines[i]) THEN AnswerStart_no_break(lines, i + 1, start)
  ELSE IF lines[i].body = "meta" THEN AnswerStart_no_break(lines, i + 1, i + 1)
  ELSE AnswerStart_no_break(lines, i + 1, i)

RECURSIVE AnswerStart(_, _, _)
\* the for loop over the lines: answer_start_index, counted from 1
AnswerStart(lines, i, start) ==
  IF i > Len(lines) THEN start
  ELSE IF IsBlank(lines[i]) THEN AnswerStart(lines, i + 1, start)
  ELSE IF lines[i].body = "meta" THEN AnswerStart(lines, i + 1, i + 1)
  ELSE i

IsFull(l) == ~IsBlank(l)

\* GPTOSSModel._extract_final_answer
ExtractFinalAnswer(t) ==
  LET response_text == RemoveTags(t)
      lines == SplitLines(StripText(response_text))
      start == AnswerStart(lines, 1, 1)
      rest == SelectSeq(SubSeq(lines, start, Len(lines)), IsFull)
      answer_lines == [i \in 1..Len(rest) |-> StripLine(rest[i])]
  IN IF answer_lines # <<>> THEN answer_lines ELSE StripText(response_text)

FxInputs ==
  {[op |-> "input", fn |-> "build_prompt", cls |-> cls, history |-> h] :
     cls \in SubprocessClasses, h \in Histories}
  \cup
  {[op |-> "input", fn |-> "phi_prompt", msg |-> m, history |-> h] :
     m \in MessagesOf(PromptWordCounts), h \in TurnHistories}
  \cup
  {[op |-> "input", fn |-> "extract_final_answer", text |-> t] : t \in RawTexts}
  \cup
  {[op |-> "input", fn |-> "phi_parameters", msg |-> m, max_new_tokens |-> n,
    temperature |-> c, via_chat |-> v] :
     m \in MessagesOf(WordCounts), n \in TokenBudgets, c \in Temperatures,
     v \in BOOLEAN}

InitFunctions ==
  /\ compatible = DetectCompatibility([installed |-> FALSE, major_minor |-> 0])
  /\ loaded_models = <<>>
  /\ chat_model = 0
  /\ evaluation_model = 0
  /\ inst = <<>>
  /\ pc = "idle"
  /\ call = NoCall
  /\ last = NoLast
  /\ active_model = NewInstance("PhiTutor")
  /\ alast = NoAdapterLast
  /\ apc = "idle"
  /\ gen = NoGen
  /\ other = NoThread
  /\ scenario = 0
  /\ wait = NoWait
  /\ fx \in FxInputs
  /\ memory = NoMemory
  /\ app = NoApp
  /\ progress = NoProgress

Applied(out) == [op |-> fx.fn, in |-> fx, out |-> out]

\* the prompt of GPTOSSModel, Llama31Model, MistralModel.generate_response
build_prompt ==
  /\ fx.op = "input" /\ fx.fn = "build_prompt"
  /\ fx' = Applied(BuildPrompt(fx.cls, fx.history))
  /\ UNCHANGED <<manager_vars, active_model, alast, apc, gen, wait, app_vars>>

\* the prompt of PhiTutor.generate_response
phi_prompt ==
  /\ fx.op = "input" /\ fx.fn = "phi_prompt"
  /\ fx' = Applied(format_prompt(PhiHistory(fx.msg, fx.history)))
  /\ UNCHANGED <<manager_vars, active_model, alast, apc, gen, wait, app_vars>>

extract_final_answer ==
  /\ fx.op = "input" /\ fx.fn = "extract_final_answer"
  /\ fx' = Applied(ExtractFinalAnswer(fx.text))
  /\ UNCHANGED <<manager_vars, active_model, alast, apc, gen, wait, app_vars>>

\* the parameters PhiTutor generates with, called directly or by the chat
\* route
phi_parameters ==
  /\ fx.op = "input" /\ fx.fn = "phi_parameters"
  /\ LET given == IF fx.via_chat
                    THEN ChatValidate(fx.max_new_tokens, fx.temperature)
                    ELSE [max_new_tokens |-> fx.max_new_tokens,
                          temperature |-> fx.temperature]
     IN fx' = Applied(PhiParameters(fx.msg, given.max_new_tokens, given.temperature))
  /\ UNCHANGED <<manager_vars, active_model, alast, apc, gen, wait, app_vars>>

NextFunctions ==
  \/ build_prompt
  \/ phi_prompt
  \/ extract_final_answer
  \/ phi_parameters

SpecFunctions == InitFunctions /\ [][NextFunctions]_vars

(***************************************************************************)
(* utils/chat_memory.py: ChatMemory, one deque(maxlen=max_history) of      *)
(* question/answer pairs for each session.  The timestamp of a pair is     *)
(* left out: nothing reads it.                                             *)
(***************************************************************************)
\* the most pairs given to one session between two clears
MaxAdded == 5

\* chat_memory = ChatMemory(max_history=3)
max_history == 3

\* the question/answer pairs given to add_message
Exchanges ==
  {[user |-> "u1", assistant |-> "r1"], [user |-> "u2", assistant |-> "r2"]}

\* deque.append on a deque that never drops
DequeAppend_unbounded(pairs, pair) == Append(pairs, pair)

\* deque(maxlen=max_history).append: a full deque drops its oldest item
DequeAppend(pairs, pair) ==
  IF Len(pairs) >= max_history THEN Append(Tail(pairs), pair)
  ELSE Append(pairs, pair)

\* ChatMemory.add_message on the memory m
AddMessage(m, session_id, user_message, ai_response) ==
  LET pair == [user |-> user_message, assistant |-> ai_response]
      old == IF m.sessions[session_id].present
               THEN m.sessions[session_id].pairs ELSE <<>>
  IN [m EXCEPT
        !.sessions[session_id] = [present |-> TRUE, pairs |-> DequeAppend(old, pair)],
        !.added[session_id] = Append(@, pair),
        !.context = NoContext]

\* ChatMemory.get_history
get_history(m, session_id) ==
  IF m.sessions[session_id].present THEN m.sessions[session_id].pairs ELSE <<>>

\* ChatMemory.get_context_messages: for each pair its user message, then
\* its assistant message
ContextMessages(m, session_id) ==
  LET history == get_history(m, session_id) IN
  [i \in 1..(2 * Len(history)) |->
     IF i % 2 = 1
       THEN [role |-> "user", content |-> history[(i + 1) \div 2].user]
       ELSE [role |-> "assistant", content |-> history[i \div 2].assistant]]

InitMemory ==
  /\ compatible = DetectCompatibility([installed |-> FALSE, major_minor |-> 0])
  /\ loaded_models = <<>>
  /\ chat_model = 0
  /\ evaluation_model = 0
  /\ inst = <<>>
  /\ pc = "idle"
  /\ call = NoCall
  /\ last = NoLast
  /\ active_model = NewInstance("GPTOSSModel")
  /\ alast = NoAdapterLast
  /\ apc = "idle"
  /\ gen = NoGen
  /\ other = NoThread
  /\ scenario = 0
  /\ wait = NoWait
  /\ fx = NoFx
  /\ memory = NoMemory
  /\ app = NoApp
  /\ progress = NoProgress

add_message(session_id) ==
  /\ Len(memory.added[session_id]) < MaxAdded
  /\ \E x \in Exchanges :
       memory' = AddMessage(memory, session_id, x.user, x.assistant)
  /\ UNCHANGED <<manager_vars, active_model, alast, apc, gen, wait, fx, app, progress>>

get_context_messages(session_id) ==
  /\ memory' = [memory EXCEPT
                  !.context = [session |-> session_id,
                               messages |-> ContextMessages(memory, session_id)]]
  /\ UNCHANGED <<manager_vars, active_model, alast, apc, gen, wait, fx, app, progress>>

\* ChatMemory.clear_session: del self.sessions[session_id]
clear_session(session_id) ==
  /\ memory' = [memory EXCEPT
                  !.sessions[session_id] =
                     IF memory.sessions[session_id].present
                       THEN [present |-> FALSE, pairs |-> <<>>] ELSE @,
                  !.added[session_id] = <<>>,
                  !.context = NoContext]
  /\ UNCHANGED <<manager_vars, active_model, alast, apc, gen, wait, fx, app, progress>>

\* ChatMemory.clear_all
clear_all ==
  /\ memory' = NoMemory
  /\ UNCHANGED <<manager_vars, active_model, alast, apc, gen, wait, fx, app, progress>>

NextMemory ==
  \/ \E s \in Sessions : add_message(s)
  \/ \E s \in Sessions : get_context_messages(s)
  \/ \E s \in Sessions : clear_session(s)
  \/ clear_all

SpecMemory == InitMemory /\ [][NextMemory]_vars

(***************************************************************************)
(* app.py: __main__ initialises the model, then runs the Flask server;     *)
(* the chat routes answer behind the gate on model_status['status'].       *)
(***************************************************************************)
\* the most pairs the chat routes append to one session
MaxChats == 2

\* the body of a POST: a JSON object with a message, one whose message is
\* missing or blank, no JSON object at all
Bodies == {"ok", "no_message", "no_json"}

Routes == {"chat", "chat_stream", "lesson_doubt_chat"}

\* the gate passing every status but 'error'
NotReady_error_only(status) == status = "error"

\* if model_status['status'] != 'ready'
NotReady(status) == status # "ready"

\* __main__ up to app.run: initialize_model(args.model) inside try/except
\* Exception, or no initialisation (DEBUG without the reloader child; the
\* module served by another launcher).  initialize_model sets 'ready' after
\* load_model returned, 'error' in its except branch, and raises again.
main_initialize ==
  /\ app.main = "start"
  /\ \/ app' = [app EXCEPT !.main = "initialized", !.load = "skipped"]
        /\ UNCHANGED active_model
     \/ \E env \in StartEnvs(active_model.cls) :
          LET r == AdapterLoad(active_model, env) IN
          /\ active_model' = r.a
          /\ app' = IF r.err = "none"
                      THEN [app EXCEPT !.main = "initialized", !.load = "returned",
                                       !.status = "ready"]
                      ELSE [app EXCEPT !.main = "initialized", !.load = "raised",
                                       !.status = "error"]
  /\ UNCHANGED <<manager_vars, alast, apc, gen, wait, fx, memory, progress>>

\* app.run(...): the server serves, or app.run raises at once
main_run ==
  /\ app.main = "initialized"
  /\ \E ok \in BOOLEAN :
       app' = [app EXCEPT !.main = IF ok THEN "serving" ELSE "stopped",
                          !.ran = TRUE]
  /\ UNCHANGED <<manager_vars, active_model, alast, apc, gen, wait, fx, memory,
                 progress>>

\* KeyboardInterrupt, or an exception out of app.run
main_stop ==
  /\ app.main = "serving"
  /\ app' = [app EXCEPT !.main = "stopped"]
  /\ UNCHANGED <<manager_vars, active_model, alast, apc, gen, wait, fx, memory,
                 progress>>

\* the session each route keeps its pairs under
SessionOf(route) == IF route = "lesson_doubt_chat" THEN "s2" ELSE "s1"

\* the answer to a request that did not reach the model
Refused(route, body, code) ==
  /\ app' = [app EXCEPT !.request =
               [route |-> route, body |-> body, at |-> app.status, code |-> code,
                invoked |-> FALSE, appended |-> FALSE, before |-> memory]]
  /\ UNCHANGED memory

\* POST /api/chat, /api/chat/stream, /api/lessons/doubt-chat: validation,
\* the gate, generate_response, add_message; chat_stream reads the message
\* with data.get (no JSON object: AttributeError, 500) and keeps no memory;
\* an exception out of generate_response is a 500 (an error event of the
\* stream)
chat(route, body) ==
  /\ app.main = "serving"
  /\ IF body = "no_json" /\ route = "chat_stream" THEN Refused(route, body, 500)
     ELSE IF body # "ok" THEN Refused(route, body, 400)
     ELSE IF NotReady(app.status) THEN Refused(route, body, 503)
     ELSE LET chk == GenerateCheck(active_model)
              s == SessionOf(route)
          IN \E b \in BackendOutcomes :
               LET response == IF chk = "go" THEN GenerateResult(active_model.cls, b)
                               ELSE "error_text"
                   keeps == chk # "raise" /\ route # "chat_stream"
               IN /\ keeps => Len(memory.added[s]) < MaxChats
                  /\ memory' = IF keeps THEN AddMessage(memory, s, "u1", response)
                               ELSE memory
                  /\ app' = [app EXCEPT !.request =
                               [route |-> route, body |-> body, at |-> app.status,
                                code |-> IF chk = "raise" /\ route # "chat_stream"
                                           THEN 500 ELSE 200,
                                invoked |-> TRUE, appended |-> keeps,
                                before |-> memory]]
  /\ UNCHANGED <<manager_vars, active_model, alast, apc, gen, wait, fx, progress>>

InitApp ==
  /\ compatible = DetectCompatibility([installed |-> FALSE, major_minor |-> 0])
  /\ loaded_models = <<>>
  /\ chat_model = 0
  /\ evaluation_model = 0
  /\ inst = <<>>
  /\ pc = "idle"
  /\ call = NoCall
  /\ last = NoLast
  /\ \E cls \in SubprocessClasses : active_model = NewInstance(cls)
  /\ alast = NoAdapterLast
  /\ apc = "idle"
  /\ gen = NoGen
  /\ other = NoThread
  /\ scenario = 0
  /\ wait = NoWait
  /\ fx = NoFx
  /\ memory = NoMemory
  /\ app = NoApp
  /\ progress = NoProgress

NextApp ==
  \/ main_initialize
  \/ main_run
  \/ main_stop
  \/ \E route \in Routes, body \in Bodies : chat(route, body)

SpecApp == InitApp /\ [][NextApp]_vars

(***************************************************************************)
(* utils/progress_tracker.py: ProgressTracker, the progress file of one    *)
(* user.                                                                   *)
(***************************************************************************)
\* the most answers and lesson starts counted in the statistics
MaxAnswers == 2

MaxStarts == 2

SectionIds == {"sec1"}

SectionStatuses == {"in_progress", "completed"}

\* hints_used is left at its default
HintCounts == {0}

InSeq(x, seq) == \E i \in 1..Len(seq) : seq[i] = x

\* the call, and for complete_lesson what it found, kept with the saved
\* progress
Called(p, op, l, old) ==
  IF op = "complete_lesson"
    THEN [p EXCEPT !.op = op, !.lesson = l,
                   !.before = [status |-> old.lessons[l].status,
                               total_lessons_completed |->
                                 old.stats.total_lessons_completed]]
    ELSE [p EXCEPT !.op = "other", !.lesson = NoProgress.lesson,
                   !.before = NoProgress.before]

\* start_lesson: a new entry and one more lesson started when the key is
\* absent; saved in both cases
StartLesson(p, l) ==
  IF p.lessons[l].present THEN [p EXCEPT !.exists = TRUE]
  ELSE [p EXCEPT !.exists = TRUE,
                 !.lessons[l] = [NoLesson EXCEPT !.present = TRUE,
                                                 !.status = "in_progress"],
                 !.stats.total_lessons_started = @ + 1]

\* update_section_progress
UpdateSectionProgress(p, l, section_id, status) ==
  LET p1 == StartLesson(p, l)
      done == InSeq(section_id, p1.lessons[l].sections_completed)
  IN IF status = "completed" /\ ~done
       THEN [p1 EXCEPT !.lessons[l].current_section = section_id,
                       !.lessons[l].sections_completed = Append(@, section_id),
                       !.stats.total_sections_completed = @ + 1]
       ELSE [p1 EXCEPT !.lessons[l].current_section = section_id]

\* record_answer adding to total_questions_correct at every correct answer
RecordAnswer_every_correct(p, l, q, is_correct, hints_used) ==
  LET p1 == StartLesson(p, l)
      old == p1.lessons[l].questions_answered[q]
      attempts == old.attempts + 1
      credit == is_correct
      now == [known |-> TRUE,
              correct |-> old.correct \/ credit,
              attempts |-> attempts,
              hints_used |-> Max(old.hints_used, hints_used),
              first_attempt_correct |->
                \/ old.first_attempt_correct
                \/ credit /\ attempts = 1 /\ hints_used = 0]
  IN [p1 EXCEPT !.lessons[l].questions_answered[q] = now,
                !.stats.total_questions_correct = IF credit THEN @ + 1 ELSE @,
                !.stats.total_questions_answered = @ + 1,
                !.credited[l][q] = IF credit THEN @ + 1 ELSE @]

\* record_answer
RecordAnswer(p, l, q, is_correct, hints_used) ==
  LET p1 == StartLesson(p, l)
      old == p1.lessons[l].questions_answered[q]
      attempts == old.attempts + 1
      credit == is_correct /\ ~old.correct
      now == [known |-> TRUE,
              correct |-> old.correct \/ credit,
              attempts |-> attempts,
              hints_used |-> Max(old.hints_used, hints_used),
              first_attempt_correct |->
                \/ old.first_attempt_correct
                \/ credit /\ attempts = 1 /\ hints_used = 0]
  IN [p1 EXCEPT !.lessons[l].questions_answered[q] = now,
                !.stats.total_questions_correct = IF credit THEN @ + 1 ELSE @,
                !.stats.total_questions_answered = @ + 1,
                !.credited[l][q] = IF credit THEN @ + 1 ELSE @]

\* the questions of an entry, and those answered correctly
Answered(lesson) == {q \in QuestionIds : lesson.questions_answered[q].known}

Correct(lesson) == {q \in Answered(lesson) : lesson.questions_answered[q].correct}

\* round(correct / total * 100, 1) in tenths of a percent, 0 without
\* questions; the quotient is exact for the totals that occur
Score(correct, total) ==
  IF total > 0 THEN (correct * 1000) \div total ELSE 0

\* complete_lesson: nothing for an absent key; status, score and one more
\* lesson completed unless the entry is completed already
CompleteLesson(p, l) ==
  IF ~p.lessons[l].present THEN p
  ELSE IF p.lessons[l].status # "completed"
    THEN LET total == Cardinality(Answered(p.lessons[l]))
             correct == Cardinality(Correct(p.lessons[l]))
         IN [p EXCEPT !.exists = TRUE,
                      !.lessons[l].status = "completed",
                      !.lessons[l].total_questions = total,
                      !.lessons[l].total_score = Score(correct, total),
                      !.stats.total_lessons_completed = @ + 1]
  ELSE [p EXCEPT !.exists = TRUE]

\* reset_lesson: the entry is deleted, the statistics stay
ResetLesson(p, l) ==
  IF p.lessons[l].present
    THEN [p EXCEPT !.exists = TRUE,
                   !.lessons[l] = NoLesson,
                   !.credited[l] = [q \in QuestionIds |-> 0]]
    ELSE p

InitProgress ==
  /\ compatible = DetectCompatibility([installed |-> FALSE, major_minor |-> 0])
  /\ loaded_models = <<>>
  /\ chat_model = 0
  /\ evaluation_model = 0
  /\ inst = <<>>
  /\ pc = "idle"
  /\ call = NoCall
  /\ last = NoLast
  /\ active_model = NewInstance("GPTOSSModel")
  /\ alast = NoAdapterLast
  /\ apc = "idle"
  /\ gen = NoGen
  /\ other = NoThread
  /\ scenario = 0
  /\ wait = NoWait
  /\ fx = NoFx
  /\ memory = NoMemory
  /\ app = NoApp
  /\ progress = NoProgress

start_lesson(l) ==
  /\ progress.lessons[l].present \/ progress.stats.total_lessons_started < MaxStarts
  /\ progress' = Called(StartLesson(progress, l), "start_lesson", l, progress)
  /\ UNCHANGED <<manager_vars, active_model, alast, apc, gen, wait, fx, memory, app>>

update_section_progress(l, section_id, status) ==
  /\ progress.lessons[l].present \/ progress.stats.total_lessons_started < MaxStarts
  /\ progress' = Called(UpdateSectionProgress(progress, l, section_id, status),
                        "update_section_progress", l, progress)
  /\ UNCHANGED <<manager_vars, active_model, alast, apc, gen, wait, fx, memory, app>>

record_answer(l, q, is_correct, hints_used) ==
  /\ progress.lessons[l].present \/ progress.stats.total_lessons_started < MaxStarts
  /\ progress.stats.total_questions_answered < MaxAnswers
  /\ progress' = Called(RecordAnswer(progress, l, q, is_correct, hints_used),
                        "record_answer", l, progress)
  /\ UNCHANGED <<manager_vars, active_model, alast, apc, gen, wait, fx, memory, app>>

complete_lesson(l) ==
  /\ progress' = Called(CompleteLesson(progress, l), "complete_lesson", l, progress)
  /\ UNCHANGED <<manager_vars, active_model, alast, apc, gen, wait, fx, memory, app>>

reset_lesson(l) ==
  /\ progress' = Called(ResetLesson(progress, l), "reset_lesson", l, progress)
  /\ UNCHANGED <<manager_vars, active_model, alast, apc, gen, wait, fx, memory, app>>

\* delete_user_progress: the file is unlinked, the next load makes a new one
delete_user_progress ==
  /\ progress.exists
  /\ progress' = [NoProgress EXCEPT !.op = "other"]
  /\ UNCHANGED <<manager_vars, active_model, alast, apc, gen, wait, fx, memory, app>>

NextProgress ==
  \/ \E l \in LessonKeys : start_lesson(l)
  \/ \E l \in LessonKeys, section_id \in SectionIds, status \in SectionStatuses :
       update_section_progress(l, section_id, status)
  \/ \E l \in LessonKeys, q \in QuestionIds, is_correct \in BOOLEAN,
        hints_used \in HintCounts :
       record_answer(l, q, is_correct, hints_used)
  \/ \E l \in LessonKeys : complete_lesson(l)
  \/ \E l \in LessonKeys : reset_lesson(l)
  \/ delete_user_progress

SpecProgress == InitProgress /\ [][NextProgress]_vars

(***************************************************************************)
(* Properties of the manager (Spec) and of the adapters (SpecAdapter).     *)
(***************************************************************************)
LoadedInsts == {loaded_models[i].inst : i \in 1..Len(loaded_models)}

InstsOf(lm) == {lm[i].inst : i \in 1..Len(lm)}

Pointer(role) == IF role = "chat" THEN chat_model ELSE evaluation_model

PointerIn(snap, role) ==
  IF role = "chat" THEN snap.chat_model ELSE snap.evaluation_model

\* a manager call has returned (or raised) and nothing ran since
Returned(op) == pc = "idle" /\ last.op = op

\* C1: after every call of the manager, an exclusive key in loaded_models is
\* the only key in it: loaded_models is empty, or holds one exclusive key,
\* or holds no exclusive key.
C1_ExclusivityInvariant ==
  pc = "idle" =>
    \A k \in LoadedKeys : AVAILABLE_MODELS[k].exclusive => LoadedKeys = {k}

\* an exclusive model was loaded over a resident one and is now alone
C1_Witness ==
  /\ Returned("load_model")
  /\ last.outcome = "loaded"
  /\ AVAILABLE_MODELS[last.key].exclusive
  /\ last.pre.loaded_models # <<>>
  /\ LoadedKeys = {last.key}

\* C2: while load_model builds or starts an exclusive model, every other
\* instance that was resident at the call has had unload() called and is out
\* of loaded_models; and when the call succeeds, loaded_models holds the
\* exclusive key only.
C2_EvictionPrecedesStart ==
  /\ (pc \in {"construct", "start"} /\ AVAILABLE_MODELS[call.key].exclusive) =>
       \A i \in 1..Len(call.pre.loaded_models) :
         LET it == call.pre.loaded_models[i] IN
         it.key # call.key =>
           /\ it.key \notin LoadedKeys
           /\ \E j \in 1..Len(call.unloaded) : call.unloaded[j] = it.inst
  /\ (pc = "idle" /\ last.outcome = "loaded" /\ AVAILABLE_MODELS[last.key].exclusive) =>
       LoadedKeys = {last.key}

\* the exclusive adapter is about to start, after an eviction
C2_Witness ==
  /\ pc = "start"
  /\ AVAILABLE_MODELS[call.key].exclusive
  /\ call.pre.loaded_models # <<>>
  /\ Len(call.unloaded) = Len(call.pre.loaded_models)
  /\ loaded_models = <<>>

\* C3: after load_model succeeds for an exclusive model B with a role, that
\* role's pointer is B, and the other role's pointer, if it was bound to an
\* instance resident before the call (a non-exclusive A), is None.
C3_EvictionFreesRolePointers ==
  (Returned("load_model") /\ last.outcome = "loaded"
     /\ AVAILABLE_MODELS[last.key].exclusive) =>
    /\ Pointer(last.role) = last.result
    /\ \A q \in Roles \ {last.role} :
         PointerIn(last.pre, q) \in InstsOf(last.pre.loaded_models) =>
           Pointer(q) = 0

\* A held a role, B was loaded for chat: chat is B, A's pointer is gone
C3_Witness ==
  /\ Returned("load_model")
  /\ last.outcome = "loaded"
  /\ AVAILABLE_MODELS[last.key].exclusive
  /\ last.role = "chat"
  /\ last.pre.evaluation_model \in InstsOf(last.pre.loaded_models)
  /\ chat_model = last.result
  /\ evaluation_model = 0

\* the claim's own case: A held chat, B is loaded for chat
C3_WitnessChat ==
  /\ Returned("load_model")
  /\ last.outcome = "loaded"
  /\ AVAILABLE_MODELS[last.key].exclusive
  /\ last.role = "chat"
  /\ last.pre.chat_model \in InstsOf(last.pre.loaded_models)
  /\ chat_model = last.result

\* the instance registered under key in the snapshot, loaded or not
ResidentReady(snap, key) ==
  /\ key \in LoadedKeysOf(snap.loaded_models)
  /\ snap.inst[snap.loaded_models[LookupIn(snap.loaded_models, key)].inst].is_loaded

\* C4: load_model of a key that is resident and loaded returns the instance
\* stored in loaded_models, builds no instance, starts nothing and leaves
\* every adapter as it was; and load_model called on a subprocess adapter
\* that is loaded and has its process handle spawns nothing and changes
\* nothing.
C4_IdempotentActivation ==
  /\ (Returned("load_model") /\ ResidentReady(last.pre, last.key)) =>
       /\ last.outcome = "cached"
       /\ last.result =
            last.pre.loaded_models[LookupIn(last.pre.loaded_models, last.key)].inst
       /\ last.result = Lookup(last.key)
       /\ last.new = 0
       /\ ~last.spawned
       /\ inst = last.pre.inst
       /\ loaded_models = last.pre.loaded_models
  /\ (Returned("adapter_load_model")
        /\ last.pre.inst[last.result].cls \in SubprocessClasses
        /\ last.pre.inst[last.result].is_loaded
        /\ last.pre.inst[last.result].server_process # "None") =>
       /\ ~last.raised
       /\ ~last.spawned
       /\ inst = last.pre.inst

\* a resident, loaded model is activated again
C4_Witness ==
  /\ Returned("load_model")
  /\ ResidentReady(last.pre, last.key)
  /\ last.outcome = "cached"
  /\ last.result # 0

\* a loaded subprocess adapter is asked to load again
C4_WitnessAdapter ==
  /\ Returned("adapter_load_model")
  /\ last.pre.inst[last.result].cls \in SubprocessClasses
  /\ last.pre.inst[last.result].is_loaded
  /\ last.outcome = "started"

\* C5: load_model of a compatible non-exclusive key while an exclusive model
\* is resident returns None; no adapter is built or started; loaded_models,
\* both role pointers and every adapter are as before the call.
C5_NonExclusiveRefused ==
  (Returned("load_model") /\ last.key \in Keys /\ compatible[last.key]
     /\ ~AVAILABLE_MODELS[last.key].exclusive
     /\ \E k \in LoadedKeysOf(last.pre.loaded_models) : AVAILABLE_MODELS[k].exclusive) =>
    /\ last.outcome = "exclusive_loaded"
    /\ last.result = 0
    /\ ~last.raised
    /\ last.new = 0
    /\ ~last.spawned
    /\ Snapshot = last.pre

\* a non-exclusive model was refused beside the resident exclusive one
C5_Witness ==
  /\ Returned("load_model")
  /\ last.outcome = "exclusive_loaded"
  /\ ~AVAILABLE_MODELS[last.key].exclusive
  /\ \E k \in LoadedKeys : AVAILABLE_MODELS[k].exclusive
  /\ chat_model # 0

\* C6: load_model of a key that is not in the registry, or whose compatible
\* flag is false, returns None with loaded_models, both role pointers and
\* every adapter unchanged and no unload() called, also for an exclusive key.
C6_UnknownOrIncompatible ==
  (Returned("load_model") /\ (last.key \notin Keys \/ ~compatible[last.key])) =>
    /\ last.outcome \in {"unknown", "incompatible"}
    /\ last.result = 0
    /\ ~last.raised
    /\ last.new = 0
    /\ last.unloaded = <<>>
    /\ Snapshot = last.pre

\* an incompatible exclusive key was requested while a model was resident
C6_Witness ==
  /\ Returned("load_model")
  /\ last.outcome = "incompatible"
  /\ AVAILABLE_MODELS[last.key].exclusive
  /\ loaded_models # <<>>
  /\ \E i \in 1..Len(inst) : inst[i].is_loaded

\* C7: when building or starting the new adapter raises, load_model returns
\* None, the key is not in loaded_models, no role pointer and no entry of
\* loaded_models refers to the failed instance, and loaded_models and the
\* role pointers are what they were when the start was attempted.
C7_StartFailureKeepsResidency ==
  (pc = "idle" /\ last.outcome = "failed") =>
    /\ last.result = 0
    /\ ~last.raised
    /\ last.key \notin LoadedKeys
    /\ (last.new # 0 =>
          /\ chat_model # last.new
          /\ evaluation_model # last.new
          /\ last.new \notin LoadedInsts)
    /\ loaded_models = last.mid.loaded_models
    /\ chat_model = last.mid.chat_model
    /\ evaluation_model = last.mid.evaluation_model

\* the start of a second model failed while the first stayed resident
C7_Witness ==
  /\ Returned("load_model")
  /\ last.outcome = "failed"
  /\ last.new # 0
  /\ last.err \in {"timeout", "crashed", "load_error"}
  /\ loaded_models # <<>>

\* C8: when load_model evicts for an exclusive model, no exception reaches
\* the caller even if an unload() raises: every other resident instance is
\* out of loaded_models and the call went on to the exclusive model.
C8_BestEffortEviction ==
  (Returned("load_model") /\ last.key \in Keys /\ compatible[last.key]
     /\ AVAILABLE_MODELS[last.key].exclusive /\ last.pre.loaded_models # <<>>) =>
    /\ ~last.raised
    /\ last.outcome \in {"loaded", "failed", "cached"}
    /\ \A k \in LoadedKeys : k = last.key

\* the instance a call tried to start
Target == IF last.op = "adapter_load_model" THEN last.result ELSE last.new

\* C9: when GPTOSSModel.load_model has spawned the server, the process
\* stays alive and none of the 120 polls of the health endpoint answers 200,
\* the start fails with the timeout error, not the crash error; the adapter
\* then has is_loaded false and no process handle, and a start made by the
\* manager's load_model leaves the key out of loaded_models.
C9_TimeoutBehaviour ==
  (pc = "idle" /\ last.op \in {"load_model", "switch_model", "adapter_load_model"}
     /\ last.spawned /\ last.env.h > Polls /\ last.env.e = Never
     /\ inst[Target].cls = "GPTOSSModel") =>
    /\ last.err = "timeout"
    /\ ~inst[Target].is_loaded
    /\ inst[Target].server_process = "None"
    /\ (last.op \in {"load_model", "switch_model"} =>
          /\ last.result = 0
          /\ last.key \notin LoadedKeys
          /\ Target \notin LoadedInsts)

\* the manager started GPT-OSS and the health endpoint never answered
C9_Witness ==
  /\ Returned("load_model")
  /\ last.key = "gpt-oss-20b"
  /\ last.spawned
  /\ last.env.h > Polls
  /\ last.env.e = Never
  /\ last.err = "timeout"

\* C10: for each subprocess adapter, when the spawned server exits and the
\* health endpoint never answers 200, load_model fails with the crash error
\* that carries the captured stderr, and the process handle is released.
C10_LaunchFailure ==
  (alast.op = "load_model" /\ alast.spawned
     /\ alast.env.h = Never /\ alast.env.e # Never) =>
    /\ alast.err = "crashed"
    /\ active_model.server_process = "None"

\* C11: for every adapter and from every state load_model and unload calls
\* lead to (never started, failed start, ready, ready by reusing a server
\* that was already running), an unload() that returns leaves is_loaded
\* false and the process handle None, and an unload() of an adapter that is
\* already in that state changes nothing.
C11_StopPostState ==
  /\ (alast.op = "unload" /\ ~alast.raised) =>
       /\ ~active_model.is_loaded
       /\ active_model.server_process = "None"
  /\ (alast.op = "unload" /\ ~alast.before.is_loaded
        /\ alast.before.server_process = "None") =>
       active_model = alast.before

\* C12: unload() returns normally to its caller whatever terminate, wait
\* and kill do (the kill being tried only after terminate or wait failed).
C12_StopNeverRaises ==
  alast.op = "unload" => ~alast.raised

\* C13: generate_response called on an adapter that is not ready (is_loaded
\* false: never loaded, start in progress or failed, unloaded) ends with the
\* not-ready outcome, and no request is built or sent.
C13_NotReadyFastFail ==
  ((gen.pc = "inflight" \/ gen.outcome # "none") /\ ~gen.ready) =>
    /\ gen.pc = "idle"
    /\ gen.outcome = "not_ready"
    /\ ~gen.posted

\* C14: every generate_response that fails (adapter not ready, HTTP error,
\* timeout, malformed payload) returns a value carrying an error description
\* and raises nothing.
C14_GenerateFailuresAreValues ==
  (gen.pc = "idle" /\ gen.outcome \notin {"none", "text"}) =>
    /\ ~gen.raised
    /\ gen.outcome \in {"not_ready", "error_text"}

\* the keys resident or being built or started by either thread
ActiveKeys ==
  LoadedKeys
    \cup (IF pc \in {"construct", "start"} THEN {call.key} ELSE {})
    \cup (IF other.pc \in {"construct", "start"} THEN {other.call.key} ELSE {})

\* C15: under every interleaving of load_model and unload_all calls of two
\* threads, an exclusive model that is resident or starting is the only
\* model resident or starting.
C15_ConcurrentExclusivity ==
  \A k \in ActiveKeys : AVAILABLE_MODELS[k].exclusive => ActiveKeys = {k}

\* C16: unload() does not release the process handle of an adapter while a
\* generate_response call on it is between its readiness check and the
\* return of its backend request.
C16_NoTeardownInFlight ==
  ~gen.released

\* C17: under every interleaving of load_model calls, no two adapter
\* instances are being built or started for one key at the same time, and
\* no two GPT-OSS instances hold a server process at the same time.
C17_OneInstancePerKey ==
  /\ ~(pc \in {"construct", "start"} /\ other.pc \in {"construct", "start"}
       /\ call.key = other.call.key)
  /\ Cardinality({i \in 1..Len(inst) : inst[i].cls = "GPTOSSModel"
                                       /\ inst[i].server_process # "None"}) <= 1

\* C18: after every load_model, switch_model and unload_all call, also one
\* that ended in an error, chat_model and evaluation_model are each None or
\* an instance that is a value of loaded_models.
C18_RolePointersAlias ==
  pc = "idle" =>
    /\ (chat_model # 0 => chat_model \in LoadedInsts)
    /\ (evaluation_model # 0 => evaluation_model \in LoadedInsts)

\* a call let an exception through while both roles were bound, each to a
\* resident instance of its own
C18_Witness ==
  /\ pc = "idle"
  /\ last.op \in {"load_model", "switch_model", "unload_all"}
  /\ last.raised
  /\ chat_model \in LoadedInsts
  /\ evaluation_model \in LoadedInsts
  /\ chat_model # evaluation_model

\* the start of the adapter met an environment in which it works: the
\* files are there and the health endpoint answers within the polls, before
\* the process is seen to exit; or the in-process load works
GoodStart(cls, env) ==
  IF cls \in SubprocessClasses
  THEN env.files /\ env.h <= Polls /\ env.h <= env.e
  ELSE env.ok

\* C19: an exclusive model was loaded for chat, then load_model of a
\* non-exclusive model for evaluation was refused, then unload_all returned:
\* loaded_models is empty and both role pointers are None; and a load_model
\* of a compatible non-exclusive model for evaluation that follows is not
\* refused for exclusivity: it gets as far as building the adapter, and
\* when the adapter builds and starts, it is resident and bound to
\* evaluation, alone in loaded_models.
C19_DeactivateThenActivate ==
  /\ (pc = "idle" /\ scenario = 3) =>
       /\ loaded_models = <<>>
       /\ chat_model = 0
       /\ evaluation_model = 0
  /\ (pc = "idle" /\ scenario = 4) =>
       /\ last.outcome \in {"loaded", "failed"}
       /\ last.mid.loaded_models = <<>>
       /\ (last.new # 0 /\ GoodStart(AVAILABLE_MODELS[last.key].class, last.env)) =>
            /\ last.outcome = "loaded"
            /\ LoadedKeys = {last.key}
            /\ evaluation_model = last.result
            /\ inst[last.result].is_loaded

\* the whole sequence was played and the last activation succeeded
C19_Witness ==
  /\ pc = "idle"
  /\ scenario = 4
  /\ last.outcome = "loaded"
  /\ evaluation_model = last.result
  /\ chat_model = 0
  /\ \E i \in 1..Len(inst) : inst[i].cls = "GPTOSSModel" /\ ~inst[i].is_loaded

\* C20: an adapter whose load_model failed is unloaded and has no process
\* handle, and the manager has not registered it; a load_model for the same
\* key that follows builds a new instance, and (like a load_model called
\* again on the adapter itself) spawns a new process and ends loaded
\* whenever the environment lets the start work.
C20_FailedIsNotTerminal ==
  /\ (pc = "idle" /\ last.op \in {"load_model", "switch_model"}
        /\ last.outcome = "failed" /\ last.new # 0) =>
       /\ ~inst[last.new].is_loaded
       /\ inst[last.new].server_process = "None"
       /\ last.key \notin LoadedKeys
       /\ last.new \notin LoadedInsts
  /\ (pc = "idle" /\ last.op = "adapter_load_model" /\ last.raised
        /\ inst[last.result].cls \in SubprocessClasses) =>
       /\ ~inst[last.result].is_loaded
       /\ inst[last.result].server_process = "None"
  /\ (pc = "idle" /\ last.op \in {"load_model", "switch_model"} /\ last.retry
        /\ last.new # 0 /\ GoodStart(inst[last.new].cls, last.env)) =>
       /\ last.outcome = "loaded"
       /\ last.new = Len(last.pre.inst) + 1
       /\ Lookup(last.key) = last.new
       /\ inst[last.new].is_loaded
       /\ (inst[last.new].cls \in SubprocessClasses =>
             /\ last.spawned
             /\ inst[last.new].server_process # "None")
  /\ (pc = "idle" /\ last.op = "adapter_load_model" /\ last.retry
        /\ inst[last.result].cls \in SubprocessClasses
        /\ GoodStart(inst[last.result].cls, last.env)) =>
       /\ ~last.raised
       /\ last.spawned
       /\ inst[last.result].is_loaded
       /\ inst[last.result].server_process # "None"

\* GPT-OSS failed to start (timeout or crash), the next load_model for it
\* spawned a server for a new instance and registered it
C20_Witness ==
  /\ Returned("load_model")
  /\ last.retry
  /\ last.key = "gpt-oss-20b"
  /\ last.outcome = "loaded"
  /\ last.spawned
  /\ last.new = 2
  /\ ~inst[1].is_loaded
  /\ inst[1].server_process = "None"

\* the adapter's own load_model failed and, called again, started it
C20_WitnessAdapter ==
  /\ Returned("adapter_load_model")
  /\ last.retry
  /\ ~last.raised
  /\ last.spawned
  /\ inst[last.result].is_loaded

\* C21: a load_model of a subprocess adapter asks the health endpoint at
\* most 120 times before it ends, ready or with a failure.
C21_StartBounded ==
  wait.i <= Polls

\* every wait that began ends (under FairStart)
StartTerminates ==
  (apc = "starting") ~> (apc = "idle")

\* the history messages of a prompt: those between the system message and
\* the last one
HistoryPart(prompt) == SubSeq(prompt, 2, Len(prompt) - 1)

\* C22: the prompt an adapter's generate_response builds holds at most 6
\* history messages, exactly the last 6 of the given history (all of them
\* when there are fewer) in their order, before the current user message.
C22_HistoryTruncation ==
  fx.op \in {"build_prompt", "phi_prompt"} =>
    LET h == fx.in.history
        part == HistoryPart(fx.out)
    IN /\ Len(part) = Min(Len(h), 6)
       /\ \A i \in 1..Len(part) : part[i] = h[Len(h) - Len(part) + i]
       /\ fx.out[Len(fx.out)] = UserMessage

\* the non-empty lines of a raw text, tags and outer whitespace taken off
FullLines(t) ==
  LET full == SelectSeq(RemoveTags(t), IsFull) IN
  [i \in 1..Len(full) |-> StripLine(full[i])]

\* C23: when some non-empty line holds no meta phrase, the answer is the
\* non-empty lines from the first such line to the end, in order: a suffix
\* of the text's lines.
C23_ReasoningExtraction ==
  fx.op = "extract_final_answer" =>
    LET n == FullLines(fx.in.text)
        plain == {i \in 1..Len(n) : n[i].body # "meta"}
    IN plain # {} =>
         \E k \in plain :
           /\ \A i \in plain : k <= i
           /\ fx.out = SubSeq(n, k, Len(n))

C23_Witness ==
  /\ fx.op = "extract_final_answer"
  /\ Len(fx.in.text) = 3
  /\ fx.in.text[1].body = "meta"
  /\ fx.in.text[2].body = "plain"
  /\ fx.in.text[3].body = "meta"
  /\ Len(fx.out) = 2
  /\ fx.out[1].body = "plain"

\* a line of the raw text that is not blank
RawFull(l) == l.tag \/ l.body \in {"meta", "plain"}

\* C24: a text whose non-empty lines all hold a meta phrase comes back
\* unchanged, and a text with a non-blank line never gives an empty answer.
C24_NeverEmpty ==
  fx.op = "extract_final_answer" =>
    LET t == fx.in.text IN
    /\ (\A i \in 1..Len(t) : RawFull(t[i]) => t[i].body = "meta") => fx.out = t
    /\ (\E i \in 1..Len(t) : RawFull(t[i])) => fx.out # <<>>

\* the second half of C24 alone
C24_NonBlankGivesAnswer ==
  fx.op = "extract_final_answer" =>
    ((\E i \in 1..Len(fx.in.text) : RawFull(fx.in.text[i])) => fx.out # <<>>)

\* C25: at most 5 words with a greeting: at most 80 tokens, temperature at
\* most 0.3; any other message of at most 10 words: at most 200 tokens,
\* temperature at most 0.5; any other of at most 25 words: at most 400 tokens.
C25_ShortAndMediumCaps ==
  fx.op = "phi_parameters" =>
    LET m == fx.in.msg IN
    /\ (m.words <= 5 /\ m.greeting) =>
         fx.out.max_new_tokens <= 80 /\ fx.out.temperature <= 3
    /\ (m.words <= 10 /\ ~(m.words <= 5 /\ m.greeting)) =>
         fx.out.max_new_tokens <= 200 /\ fx.out.temperature <= 5
    /\ (m.words <= 25 /\ m.words > 10) => fx.out.max_new_tokens <= 400

C25_Witness ==
  /\ fx.op = "phi_parameters"
  /\ fx.in.msg.words = 10
  /\ ~fx.in.msg.greeting /\ ~fx.in.msg.simple_math
  /\ fx.in.max_new_tokens = 2048
  /\ fx.in.temperature = 10
  /\ fx.out = [max_new_tokens |-> 200, temperature |-> 3]

\* the parameters generate_response was given: the caller's, or the chat
\* route's validation of them
Given ==
  IF fx.in.via_chat THEN ChatValidate(fx.in.max_new_tokens, fx.in.temperature)
  ELSE [max_new_tokens |-> fx.in.max_new_tokens, temperature |-> fx.in.temperature]

\* C26: a medium message (11 to 25 words, no simple class) is answered at
\* the caller's temperature unless that is above the cap.
C26_MediumTemperature ==
  (/\ fx.op = "phi_parameters"
   /\ fx.in.msg.words > 10 /\ fx.in.msg.words <= 25
   /\ ~fx.in.msg.greeting /\ ~fx.in.msg.simple_math)
  => fx.out.temperature = Min(Given.temperature, 5)

\* C27: a long message (over 25 words, no greeting or arithmetic marker)
\* gets the caller's max_new_tokens clamped to 2048 and the caller's
\* temperature clamped to [0.1, 1.0].
C27_LongParameters ==
  (/\ fx.op = "phi_parameters"
   /\ fx.in.msg.words > 25
   /\ ~fx.in.msg.greeting /\ ~fx.in.msg.simple_math)
  => /\ fx.out.max_new_tokens = Min(fx.in.max_new_tokens, 2048)
     /\ fx.out.temperature = Max(1, Min(10, fx.in.temperature))

\* C28: the prompt of PhiTutor holds the history it was given, whatever the
\* message: a history is dropped only when it is empty.
C28_HistoryNeverDiscarded ==
  fx.op = "phi_prompt" => HistoryPart(fx.out) = fx.in.history

C28_Witness ==
  /\ fx.op = "phi_prompt"
  /\ fx.in.msg.simple_math /\ ~fx.in.msg.asks_explanation
  /\ Len(fx.in.history) = 2
  /\ HistoryPart(fx.out) = fx.in.history

\* C29: whenever load_model(key, role) returns an instance, the pointer of
\* that role references it on return, also when the key was resident
\* already and when an exclusive key is activated a second time.
C29_RoleBinding ==
  (Returned("load_model") /\ last.result # 0) => Pointer(last.role) = last.result

\* the instances the manager holds in the snapshot: those of loaded_models
\* and those of the two role pointers
HeldIn(snap) ==
  InstsOf(snap.loaded_models) \cup ({snap.chat_model, snap.evaluation_model} \ {0})

\* C30: every instance in loaded_models or behind a role pointer is loaded.
\* Stated for one step: a switch_model that began with every held instance
\* loaded ends with every held instance loaded.
C30_ResidentImpliesReady ==
  (/\ Returned("switch_model")
   /\ \A i \in HeldIn(last.pre) : last.pre.inst[i].is_loaded)
  => \A i \in LoadedInsts \cup ({chat_model, evaluation_model} \ {0}) :
       inst[i].is_loaded

\* C31: when switch_model(key, role) returns True, the pointer of the role
\* references the instance registered under key and that instance is
\* loaded, whatever the key: the one bound to the role, a cached one, a new
\* one.
C31_SwitchSuccess ==
  (Returned("switch_model") /\ last.result # 0) =>
    /\ last.key \in LoadedKeys
    /\ Pointer(last.role) = Lookup(last.key)
    /\ inst[Lookup(last.key)].is_loaded

\* the first half of C31 alone: the pointer is bound
C31_PointerBound ==
  (Returned("switch_model") /\ last.result # 0) => Pointer(last.role) = last.result

\* the second half of C31 alone: the instance returned is loaded
C31_InstanceLoaded ==
  (Returned("switch_model") /\ last.result # 0) => inst[last.result].is_loaded

\* C32: when unload_all returns, loaded_models is empty, both role pointers
\* are None and unload() was called on every instance that was resident;
\* the load_model of a compatible key that follows is not refused for
\* exclusivity.
C32_UnloadAllPostState ==
  /\ (Returned("unload_all") /\ ~last.raised) =>
       /\ loaded_models = <<>>
       /\ chat_model = 0
       /\ evaluation_model = 0
       /\ {last.unloaded[i] : i \in 1..Len(last.unloaded)}
            = InstsOf(last.pre.loaded_models)
  /\ (Returned("load_model") /\ last.after_unload_all /\ last.key \in Keys
        /\ compatible[last.key]) =>
       /\ last.outcome # "exclusive_loaded"
       /\ last.pre.loaded_models = <<>>

\* the exclusive model was resident, unload_all returned, and the load_model
\* of a non-exclusive key that followed was served
C32_Witness ==
  /\ Returned("load_model")
  /\ last.after_unload_all
  /\ last.outcome = "loaded"
  /\ ~Exclusive(last.key)
  /\ Len(last.pre.inst) = 1
  /\ last.pre.inst[1].cls = "GPTOSSModel"
  /\ ~last.pre.inst[1].is_loaded

\* C33: when load_model of an exclusive key has evicted the resident models
\* and the new adapter then fails to start, it returns None with
\* loaded_models empty and both role pointers None; the evicted models stay
\* unloaded.
C33_NoRollbackOfEvictions ==
  (/\ Returned("load_model")
   /\ last.outcome = "failed"
   /\ Exclusive(last.key)
   /\ last.unloaded # <<>>
   /\ last.new # 0) =>
    /\ last.result = 0
    /\ ~last.raised
    /\ loaded_models = <<>>
    /\ chat_model = 0
    /\ evaluation_model = 0
    /\ \A i \in 1..Len(last.unloaded) : ~inst[last.unloaded[i]].is_loaded

\* the evicted model was the chat model, and the exclusive adapter failed
\* after its process was spawned
C33_Witness ==
  /\ Returned("load_model")
  /\ last.outcome = "failed"
  /\ Exclusive(last.key)
  /\ last.unloaded # <<>>
  /\ last.pre.chat_model = last.unloaded[1]
  /\ last.spawned
  /\ last.err = "timeout"
  /\ loaded_models = <<>>
  /\ chat_model = 0

\* C34: on a subprocess adapter, whatever load_model and unload calls were
\* made (a load_model reusing a server that already answers included),
\* is_loaded implies that the process handle is set; so generate_response on
\* an adapter whose is_ready() is true passes the readiness check and calls
\* the backend.
C34_ReadyCanGenerate ==
  /\ active_model.is_loaded => active_model.server_process # "None"
  /\ (gen.ready /\ gen.outcome # "none") => gen.outcome # "not_ready"

\* the first half of C34 alone
C34_LoadedHasHandle ==
  active_model.is_loaded => active_model.server_process # "None"

\* the second half of C34 alone
C34_ReadyPassesCheck ==
  (gen.ready /\ gen.outcome # "none") => gen.outcome # "not_ready"

\* ModelManager.get_available_models: the compatible keys, all of them
\* (use_case "none") or those of a use case
get_available_models(use_case) ==
  {k \in Keys :
     /\ compatible[k]
     /\ (use_case = "none" \/ AVAILABLE_MODELS[k].use_case \in {use_case, "both"})}

\* C35: gpt-oss-20b, which needs no transformers, is compatible whatever
\* the detection finds: get_available_models() always lists it and
\* load_model never rejects it as incompatible.
C35_GptOssAlwaysCompatible ==
  /\ "gpt-oss-20b" \in get_available_models("none")
  /\ (Returned("load_model") /\ last.key = "gpt-oss-20b") =>
       last.outcome # "incompatible"

\* the second half of C35 alone
C35_NeverRejected ==
  (Returned("load_model") /\ last.key = "gpt-oss-20b") =>
    last.outcome # "incompatible"

\* C36: whatever add_message and clear_session calls were made, a session
\* holds at most max_history (3) pairs, the last ones it was given, in
\* the order they came; and get_context_messages returns two messages for
\* each stored pair, user then assistant: at most 6.
C36_HistoryBoundedFifo ==
  /\ \A s \in Sessions :
       LET p == get_history(memory, s)
           a == memory.added[s]
       IN /\ Len(p) <= 3
          /\ Len(p) = Min(Len(a), 3)
          /\ \A i \in 1..Len(p) : p[i] = a[Len(a) - Len(p) + i]
  /\ memory.context.session # "none" =>
       LET p == get_history(memory, memory.context.session)
           c == memory.context.messages
       IN /\ Len(c) = 2 * Len(p)
          /\ Len(c) <= 6
          /\ \A i \in 1..Len(p) :
               /\ c[2 * i - 1] = [role |-> "user", content |-> p[i].user]
               /\ c[2 * i] = [role |-> "assistant", content |-> p[i].assistant]

\* a session was given 5 pairs and its context was asked for
C36_Witness ==
  /\ memory.context.session = "s1"
  /\ Len(memory.added["s1"]) = 5
  /\ Len(memory.context.messages) = 6
  /\ memory.added["s1"][1].user # memory.added["s1"][3].user

\* what C37 says of the status, of the server and of the model and the
\* memory behind the gate: the status starts as 'initializing', is 'ready'
\* only when initialize_model's load_model returned, 'error' when it raised;
\* a failed load does not keep app.run from being called; the model is
\* invoked and the memory appended to only at 'ready', and a request at
\* another status leaves the memory as it was
StatusGate ==
  /\ app.main = "start" => app.status = "initializing"
  /\ app.status = "ready" => app.load = "returned"
  /\ app.load = "raised" => app.status = "error"
  /\ app.status = "error" => app.load = "raised"
  /\ (app.load = "raised" /\ app.main = "stopped") => app.ran
  /\ (app.request.invoked \/ app.request.appended) => app.request.at = "ready"
  /\ (app.request.route # "none" /\ app.request.at # "ready") =>
       /\ ~app.request.invoked
       /\ memory = app.request.before

C38_CountersConsistent ==
  /\ progress.stats.total_questions_correct <= progress.stats.total_questions_answered
  /\ progress.stats.total_lessons_completed <= progress.stats.total_lessons_started
  /\ \A l \in LessonKeys, q \in QuestionIds : progress.credited[l][q] <= 1
  /\ (progress.op = "complete_lesson" /\ progress.before.status = "completed") =>
       progress.stats.total_lessons_completed =
         progress.before.total_lessons_completed

\* a lesson with a question answered correctly twice was completed, and
\* complete_lesson was called on it again
C38_Witness ==
  /\ progress.op = "complete_lesson"
  /\ progress.before.status = "completed"
  /\ progress.stats.total_lessons_completed = 1
  /\ \E q \in QuestionIds :
       /\ progress.lessons[progress.lesson].questions_answered[q].correct
       /\ progress.lessons[progress.lesson].questions_answered[q].attempts >= 2
       /\ progress.credited[progress.lesson][q] = 1
  /\ progress.stats.total_questions_correct = 1
  /\ progress.stats.total_questions_answered >= 2

====
